---- MODULE Spec2Model ----
(***************************************************************************)
(* A model of the COIL/HOIL toolchain: the COIL binary container codec,    *)
(* the instruction codec, the HOIL parser and semantic analyzer, and the   *)
(* x86-64 translator.  Every component has its own variables and its own   *)
(* specification; the variables of the other components stay idle.         *)
(***************************************************************************)
EXTENDS Integers, Sequences, FiniteSets, TLC

VARIABLES
  \* ---- COIL binary container (module.c, binary_parser.c)
  endian,         \* byte order of the host: uint32_t stores go through pointer casts
  bin_module,     \* the module_t handed to coil_module_to_binary
  buffer_size,    \* the buffer_size argument of coil_module_to_binary
  bin_memory,     \* the caller's memory from buffer[0] on, after the encoder ran
  buffer,         \* the bytes of the file handed to coil_parse_binary
  bin_origin,     \* "none", "encoded" (written by the encoder) or "crafted"
  to_binary_ret,  \* return value of coil_module_to_binary
  parse_state,    \* "idle" or "parsed"
  parsed_module,  \* module_t* returned by coil_parse_binary (NoModule = NULL)
  bin_errors,     \* diagnostics reported by the binary parser, in order
  oob_read,       \* TRUE when the parser dereferenced a byte outside the file
  \* ---- semantic analyzer (semantic.c)
  sem_module,     \* the module under analysis
  sem_phase,      \* "running" or "done"
  sem_index,      \* number of items (globals, then functions) analyzed so far
  global_symbols, \* analyzer->global_symbols (names, in insertion order)
  sem_errors,     \* diagnostics reported by the analyzer, in order
  sem_analyzed,   \* indices of the functions hoil_analyze_function was called on
  sem_ret,        \* return value of hoil_analyze_module (Pending until it returns)
  \* ---- HOIL compiler front end (lexer.c, parser.c, hoil_compiler.c)
  source,         \* the lexemes of the source text
  hc_validate,    \* compiler->validate (hoil_set_validate)
  hc_malloc0,     \* TRUE when malloc(0) returns NULL on this platform
  hc_phase,       \* "start", "items" or "done"
  hc_pos,         \* index of parser->current_token in the token stream
  hc_module,      \* compiler->module (NoModule = NULL)
  hc_errors,      \* diagnostics reported by parser and analyzer, in order
  hc_had_error,   \* compiler->had_error
  hc_ret,         \* what hoil_compile_string returned: "pending", "module", "null"
  \* ---- instruction codec (instruction.c, instruction_decoder.c)
  ic_instr,       \* the instruction built with the IR constructors
  ic_fill,        \* content of the caller's buffer before encoding (uninitialized)
  ic_bytes,       \* bytes produced by coil_instruction_to_binary
  ic_phase,       \* "idle", "built", "encoded" or "failed" (the encoder returned -1)
  ic_from_binary, \* result of coil_instruction_from_binary
  ic_decoded,     \* result of coil_decode_instruction
  \* ---- x86-64 translator (translator.c)
  tr_function,    \* the function_t handed to coil_translate_function
  tr_module,      \* the module_t handed to coil_translate_module
  tr_buffer,      \* the native_buffer_t: its data and its capacity
  tr_heap,        \* how many more realloc calls will succeed
  tr_emitted,     \* bytes appended by the call
  tr_ret,         \* return value of coil_translate_function (Pending before)
  tr_errors,      \* diagnostics reported by the translator
  tr_mappings,    \* translator->reg_mappings
  tr_guard,       \* whether the build aborts on a write past a stack array
  \* ---- optimizer (optimizer.c)
  opt_module,     \* the module_t handed to the optimizer, rewritten in place
  opt_before,     \* that module as it was before the call
  opt_level,      \* optimizer->level
  opt_registers,  \* optimizer->target->resources.registers
  opt_call,       \* the entry point called and the function and block it was given
  opt_ret,        \* its return value (Pending before)
  opt_errors,     \* diagnostics reported by the optimizer
  \* ---- type system (type_system.c)
  ty_registry,    \* the type_registry_t: its entries in order
  ty_heap,        \* how many more allocations will succeed
  ty_created,     \* what the calls of coil_create_struct_type returned, in order
  ty_compat,      \* the last coil_types_compatible query and its answers
  ty_composite,   \* the last pointer, vector or array type made, with what was read back
  \* ---- lexer (lexer.c)
  lx_source,      \* lexer->source, a sequence of characters
  lx_current,     \* lexer->current, as the number of characters consumed
  lx_token,       \* the tokens hoil_lexer_next_token has returned, in order
  lx_errors,      \* diagnostics reported by the lexer
  \* ---- diagnostic sink (error.c)
  sink_context,   \* the error_context_t: callbacks, history and the three counters
  sink_stream,    \* the reports the clients will make, in order
  sink_made,      \* how many of them have been made
  sink_reports,   \* the reports made since the last coil_clear_errors, in order
  sink_invoked,   \* the callbacks called by the last coil_report_error, in call order
  sink_ret,       \* what the last coil_register_error_callback returned (Pending before)
  \* ---- assembler (coil_assembler.c)
  as_targets,     \* every target_config_t allocated so far: "alive" or "freed"
  as_assembler,   \* the coil_assembler_t: target, translator, optimizer, module
  as_run,         \* the target configurations the last call reached through its translator or optimizer
  as_ret,         \* what the last call returned (Pending before)
  as_errors       \* the diagnostics the last call reported

codecVars == <<endian, bin_module, buffer_size, bin_memory, buffer, bin_origin, to_binary_ret,
               parse_state, parsed_module, bin_errors, oob_read>>
semVars == <<sem_module, sem_phase, sem_index, global_symbols, sem_errors, sem_analyzed,
             sem_ret>>
hcVars == <<source, hc_validate, hc_malloc0, hc_phase, hc_pos, hc_module, hc_errors,
            hc_had_error, hc_ret>>
icVars == <<ic_instr, ic_fill, ic_bytes, ic_phase, ic_from_binary, ic_decoded>>
trVars == <<tr_function, tr_module, tr_buffer, tr_heap, tr_emitted, tr_ret, tr_errors, tr_mappings,
           tr_guard>>
optVars == <<opt_module, opt_before, opt_level, opt_registers, opt_call, opt_ret, opt_errors>>
tyVars == <<ty_registry, ty_heap, ty_created, ty_compat, ty_composite>>
skVars == <<sink_context, sink_stream, sink_made, sink_reports, sink_invoked, sink_ret>>
asVars == <<as_targets, as_assembler, as_run, as_ret, as_errors>>
lxVars == <<lx_source, lx_current, lx_token, lx_errors>>
vars == <<codecVars, semVars, hcVars, icVars, trVars, optVars, tyVars, skVars, asVars, lxVars>>

(***************************************************************************)
(* Generic helpers                                                         *)
(***************************************************************************)
Pending == 0 - 2

NullName == << -1 >>

NoModule ==
  [name |-> NullName, type_registry |-> <<>>, globals |-> <<>>, functions |-> <<>>,
   isnull |-> TRUE]

Max(a, b) == IF a >= b THEN a ELSE b

Last(s) == s[Len(s)]

RECURSIVE SeqOf(_, _)
SeqOf(S, n) ==
  IF n = 0 THEN {<<>>}
  ELSE LET shorter == SeqOf(S, n - 1)
       IN shorter \cup {Append(s, x) : s \in {t \in shorter : Len(t) = n - 1}, x \in S}

Min(a, b) == IF a <= b THEN a ELSE b

SetMin(S) == CHOOSE x \in S : \A y \in S : x <= y

(***************************************************************************)
(* Diagnostics (error.h).  A diagnostic is kept as its code and category.  *)
(***************************************************************************)
ERROR_CATEGORY_PARSER == 1
ERROR_CATEGORY_SEMANTIC == 3
ERROR_CATEGORY_BINARY == 5
ERROR_CATEGORY_ASSEMBLER == 6
ERROR_ASSEMBLER_NO_TARGET == 601
ERROR_ASSEMBLER_BAD_MAPPING == 602

ERROR_GENERAL_OUT_OF_MEMORY == 3
ERROR_PARSER_UNEXPECTED_TOKEN == 100
ERROR_PARSER_EXPECTED_TOKEN == 101
ERROR_PARSER_INVALID_SYNTAX == 102
ERROR_TYPE_UNKNOWN == 200
ERROR_TYPE_INVALID == 203
ERROR_TYPE_NOT_FOUND == 204
ERROR_SEMANTIC_UNDEFINED == 300
ERROR_SEMANTIC_REDEFINED == 301
ERROR_SEMANTIC_INVALID_OPERAND == 302
ERROR_SEMANTIC_INVALID_CONTROL == 303
ERROR_CODEGEN_INVALID_IR == 400
ERROR_CODEGEN_UNSUPPORTED == 401
ERROR_BINARY_INVALID_FORMAT == 500
ERROR_BINARY_UNSUPPORTED_VER == 501
ERROR_BINARY_CORRUPT == 502
ERROR_SYSTEM_MEMORY == 701

Diag(code, category) == [code |-> code, category |-> category]

Codes(errors) == {errors[i].code : i \in 1..Len(errors)}

(***************************************************************************)
(* 32-bit unsigned words.  A uint32_t is kept as <<high 16 bits, low 16    *)
(* bits>> so that every value of the type is representable and additions   *)
(* wrap at 2^32 as they do in C.                                           *)
(***************************************************************************)
U32(b3, b2, b1, b0) == <<b3 * 256 + b2, b1 * 256 + b0>>

Word(n) == <<n \div 65536, n % 65536>>

Add32(a, b) ==
  LET lo == a[2] + b[2]
  IN <<(a[1] + b[1] + (lo \div 65536)) % 65536, lo % 65536>>

\* a > n for a uint32_t a and a size_t n below 2^16
Gt32(a, n) == a[1] > 0 \/ a[2] > n

\* the four bytes of a word as the host stores them through a uint32_t*
Bytes32(w, e) ==
  LET le == <<w[2] % 256, w[2] \div 256, w[1] % 256, w[1] \div 256>>
  IN IF e = "little" THEN le ELSE <<le[4], le[3], le[2], le[1]>>

\* *(uint32_t*)(data + off)
Load32(data, off, e) ==
  LET b == IF e = "little"
           THEN <<data[off + 1], data[off + 2], data[off + 3], data[off + 4]>>
           ELSE <<data[off + 4], data[off + 3], data[off + 2], data[off + 1]>>
  IN U32(b[4], b[3], b[2], b[1])

\* memory after storing bytes at mem + off (memory past Len(mem) is shown too)
WriteAt(mem, off, bytes) ==
  [i \in 1..Max(Len(mem), off + Len(bytes)) |->
     IF i > off /\ i <= off + Len(bytes) THEN bytes[i - off] ELSE mem[i]]

(***************************************************************************)
(* coil_module_to_binary (module.c)                                        *)
(***************************************************************************)
COIL_MAGIC == U32(67, 79, 73, 76)      \* 0x434F494C
COIL_VERSION == U32(0, 1, 0, 0)        \* 0x00010000
SECTION_TYPE_TYPE == 1
SECTION_TYPE_CODE == 5
SECTION_TYPE_METADATA == 7

\* ret is the return value, mem the caller's memory from buffer[0] on: its
\* first bsize bytes are the buffer, anything after was written past its end
coil_module_to_binary(module, bsize, fill, e) ==
  LET mem0 == [i \in 1..bsize |-> fill]
      named == module.name # NullName
      nlen == IF named THEN Len(module.name) ELSE 0
      header == Bytes32(COIL_MAGIC, e) \o Bytes32(COIL_VERSION, e)
                \o Bytes32(Word(1), e) \o Bytes32(Word(0), e)
      table == Bytes32(Word(SECTION_TYPE_METADATA), e) \o Bytes32(Word(28), e)
               \o Bytes32(Word(nlen + 1), e)
      mem1 == WriteAt(WriteAt(mem0, 0, header), 16, table)
      text == (IF named THEN module.name ELSE <<>>) \o <<0>>
  IN IF bsize < 16 THEN [ret |-> -1, mem |-> mem0]
     ELSE IF bsize < 28 + nlen + 1 THEN [ret |-> -1, mem |-> mem1]
     ELSE [ret |-> 28 + nlen + 1, mem |-> WriteAt(mem1, 28, text)]

(***************************************************************************)
(* coil_parse_binary (binary_parser.c)                                     *)
(***************************************************************************)
BinDiag(code) == Diag(code, ERROR_CATEGORY_BINARY)

\* the section-table loop of parse_header, from entry i (0-based) on
RECURSIVE parse_section_table(_, _, _, _, _)
parse_section_table(data, e, i, count, sections) ==
  IF i >= count THEN [ok |-> TRUE, errors |-> <<>>, sections |-> sections]
  ELSE LET offset == 16 + i * 12
       IN IF offset + 12 > Len(data)
          THEN [ok |-> FALSE, errors |-> <<BinDiag(ERROR_BINARY_CORRUPT)>>,
                sections |-> sections]
          ELSE LET section == [type |-> Load32(data, offset, e),
                               offset |-> Load32(data, offset + 4, e),
                               size |-> Load32(data, offset + 8, e)]
               IN IF Gt32(Add32(section.offset, section.size), Len(data))
                  THEN [ok |-> FALSE, errors |-> <<BinDiag(ERROR_BINARY_CORRUPT)>>,
                        sections |-> sections]
                  ELSE parse_section_table(data, e, i + 1, count,
                                           Append(sections, section))

parse_header(data, e) ==
  LET fail(code) == [ok |-> FALSE, errors |-> <<BinDiag(code)>>, sections |-> <<>>]
  IN IF Len(data) < 16 THEN fail(ERROR_BINARY_INVALID_FORMAT)
     ELSE LET magic == Load32(data, 0, e)
              version == Load32(data, 4, e)
              major == version[1] \div 256      \* (version >> 24) & 0xFF
              minor == version[1] % 256         \* (version >> 16) & 0xFF
              section_count == Load32(data, 8, e)
              \* a count of 2^16 or more runs off any file this model builds
              count == IF section_count[1] > 0 THEN 65536 ELSE section_count[2]
          IN IF magic # COIL_MAGIC THEN fail(ERROR_BINARY_INVALID_FORMAT)
             ELSE IF major # 1 \/ minor # 0 THEN fail(ERROR_BINARY_UNSUPPORTED_VER)
             ELSE IF section_count = Word(0) THEN fail(ERROR_BINARY_INVALID_FORMAT)
             ELSE parse_section_table(data, e, 0, count, <<>>)

\* first section of the given type, <<>> when there is none
coil_get_section(sections, type) ==
  LET hits == {i \in 1..Len(sections) : sections[i].type = Word(type)}
  IN IF hits = {} THEN <<>> ELSE <<sections[SetMin(hits)]>>

\* parse_metadata_section.  The loop reads name[i] for i < section->size until
\* it meets a NUL.  Bytes past the end of the file are outside the caller's
\* buffer: what such a read returns is not defined, wild tells whether the
\* first of them happens to be NUL.
parse_metadata_section(data, sections, wild) ==
  LET found == coil_get_section(sections, SECTION_TYPE_METADATA)
      section == found[1]
      n == Len(data)
      inside == section.offset[1] = 0 /\ section.offset[2] < n
      start == section.offset[2]
      stop == IF section.size[1] > 0 THEN n ELSE Min(n, start + section.size[2])
      nuls == {p \in start..(stop - 1) : data[p + 1] = 0}
      runs_off == section.offset[1] > 0 \/ section.size[1] > 0
                  \/ start + section.size[2] > n
  IN IF found = <<>> \/ section.size = Word(0)
     THEN [ok |-> TRUE, named |-> FALSE, name |-> <<>>, errors |-> <<>>, oob |-> FALSE]
     ELSE IF inside /\ nuls # {}
     THEN [ok |-> TRUE, named |-> TRUE, name |-> SubSeq(data, start + 1, SetMin(nuls)),
           errors |-> <<>>, oob |-> FALSE]
     ELSE IF runs_off /\ wild
     THEN [ok |-> TRUE, named |-> TRUE,
           name |-> IF inside THEN SubSeq(data, start + 1, n) ELSE <<>>,
           errors |-> <<>>, oob |-> TRUE]
     ELSE [ok |-> FALSE, named |-> FALSE, name |-> <<>>,
           errors |-> <<BinDiag(ERROR_BINARY_CORRUPT)>>, oob |-> runs_off]

\* coil_parse_binary: the type, function, global, constant, code and relocation
\* section parsers accept every file (the module has no functions when the code
\* section is looked up), so only the header and the metadata section decide.
coil_parse_binary(data, e, wild) ==
  LET header == parse_header(data, e)
      meta == parse_metadata_section(data, header.sections, wild)
  IN IF Len(data) = 0
     THEN [module |-> NoModule, errors |-> <<>>, oob |-> FALSE]
     ELSE IF ~header.ok
     THEN [module |-> NoModule, errors |-> header.errors, oob |-> FALSE]
     ELSE IF ~meta.ok
     THEN [module |-> NoModule, errors |-> meta.errors, oob |-> meta.oob]
     ELSE [module |-> [NoModule EXCEPT !.isnull = FALSE,
                                       !.name = IF meta.named THEN meta.name
                                                ELSE NullName],
           errors |-> <<>>, oob |-> meta.oob]

(***************************************************************************)
(* The COIL intermediate representation (type_system.h, instruction.h,     *)
(* module.h).  A coil_type_t is kept as its four bit fields.  Operands     *)
(* carry the fields of every kind; the ones a kind does not use are zero.  *)
(***************************************************************************)
TYPE_CATEGORY_FLOAT == 3
TYPE_CATEGORY_POINTER == 4
TYPE_CATEGORY_VECTOR == 5
TYPE_CATEGORY_ARRAY == 6
TYPE_CATEGORY_STRUCT == 7
TYPE_CATEGORY_FUNCTION == 8

\* the fields of a 32-bit type code: [31:28] [27:20] [19:12] [11:0]
TypeOfWord(w) ==
  [category |-> w[1] \div 4096, width |-> (w[1] \div 16) % 256,
   qualifiers |-> (w[1] % 16) * 16 + (w[2] \div 4096), attributes |-> w[2] % 4096]

WordOfType(t) ==
  <<t.category * 4096 + t.width * 16 + (t.qualifiers \div 16),
    (t.qualifiers % 16) * 4096 + t.attributes>>

coil_create_type(category, width, qualifiers, attributes) ==
  [category |-> category % 16, width |-> width % 256,
   qualifiers |-> qualifiers % 256, attributes |-> attributes % 4096]

COIL_TYPE_VOID == TypeOfWord(U32(0, 0, 0, 0))     \* 0x00000000
COIL_TYPE_INT8 == TypeOfWord(U32(2, 8, 0, 0))     \* 0x02080000
COIL_TYPE_INT32 == TypeOfWord(U32(2, 32, 0, 0))   \* 0x02200000

\* coil_get_pointer_base_type, coil_get_element_type: (coil_type_t)attributes
coil_get_element_type(type) == TypeOfWord(<<0, type.attributes>>)

OPCODE_ADD == 1
OPCODE_SUB == 2
OPCODE_MUL == 3
OPCODE_LOAD == 48
OPCODE_STORE == 49
OPCODE_BR == 64
OPCODE_SWITCH == 65
OPCODE_CALL == 66
OPCODE_RET == 67
OPCODE_LOAD_I32 == 114
OPCODE_NOP == 241

OPERAND_REGISTER == 0
OPERAND_IMMEDIATE == 1
OPERAND_BASIC_BLOCK == 2
OPERAND_FUNCTION == 3
OPERAND_GLOBAL == 4
OPERAND_MEMORY == 5

NoOperand ==
  [kind |-> OPERAND_REGISTER, reg |-> 0, imm |-> 0, name |-> "",
   base |-> 0, offset |-> 0, index |-> 0, scale |-> 0]

coil_create_reg_operand(reg) == [NoOperand EXCEPT !.reg = reg]
coil_create_imm_operand(imm) == [NoOperand EXCEPT !.kind = OPERAND_IMMEDIATE, !.imm = imm]
coil_create_block_operand(block) ==
  [NoOperand EXCEPT !.kind = OPERAND_BASIC_BLOCK, !.name = block]
coil_create_func_operand(func) ==
  [NoOperand EXCEPT !.kind = OPERAND_FUNCTION, !.name = func]
coil_create_global_operand(global) ==
  [NoOperand EXCEPT !.kind = OPERAND_GLOBAL, !.name = global]
coil_create_mem_operand(base, offset, index, scale) ==
  [NoOperand EXCEPT !.kind = OPERAND_MEMORY, !.base = base, !.offset = offset,
                    !.index = index, !.scale = scale]

coil_create_instruction(opcode, flags, dest, operands) ==
  [opcode |-> opcode, flags |-> flags, dest |-> dest, operands |-> operands]

coil_create_binary_op(opcode, dest, a, b) == coil_create_instruction(opcode, 0, dest, <<a, b>>)
coil_create_load(dest, address) == coil_create_instruction(OPCODE_LOAD, 0, dest, <<address>>)
coil_create_branch(target) ==
  coil_create_instruction(OPCODE_BR, 0, coil_create_reg_operand(0),
                          <<coil_create_block_operand(target)>>)
coil_create_return(values) ==
  coil_create_instruction(OPCODE_RET, 0, coil_create_reg_operand(0), values)

coil_create_basic_block(name, instructions) ==
  [name |-> name, instructions |-> instructions]

coil_create_function(name, return_type, parameters, is_external, register_count, blocks) ==
  [name |-> name, return_type |-> return_type, parameters |-> parameters,
   is_external |-> is_external, register_count |-> register_count, blocks |-> blocks]

coil_create_global(name, type) == [name |-> name, type |-> type]

coil_create_module(name, type_registry, globals, functions) ==
  [name |-> name, type_registry |-> type_registry, globals |-> globals,
   functions |-> functions, isnull |-> FALSE]

coil_find_function(module, name) ==
  \E i \in 1..Len(module.functions) : module.functions[i].name = name
coil_find_global(module, name) ==
  \E i \in 1..Len(module.globals) : module.globals[i].name = name
coil_find_basic_block(function, name) ==
  \E i \in 1..Len(function.blocks) : function.blocks[i].name = name

(***************************************************************************)
(* Semantic analyzer (semantic.c).  Every operator returns the diagnostics *)
(* it reported; the C function returns 0 exactly when it reported none.    *)
(* A symbol table is the sequence of the names entered so far.             *)
(***************************************************************************)
SemDiag(code) == Diag(code, ERROR_CATEGORY_SEMANTIC)

find_symbol(table, name) == \E i \in 1..Len(table) : table[i] = name

find_type_info(registry, type) ==
  LET hits == {i \in 1..Len(registry) : registry[i].type_code = type}
  IN IF hits = {} THEN <<>> ELSE <<registry[SetMin(hits)]>>

RECURSIVE hoil_analyze_type(_, _)
RECURSIVE analyze_member_types(_, _, _)
analyze_member_types(registry, types, i) ==
  IF i > Len(types) THEN <<>>
  ELSE LET errors == hoil_analyze_type(registry, types[i])
       IN IF errors # <<>> THEN errors ELSE analyze_member_types(registry, types, i + 1)

hoil_analyze_type(registry, type) ==
  IF type.category <= TYPE_CATEGORY_FLOAT THEN <<>>
  ELSE IF type.category = TYPE_CATEGORY_POINTER
  THEN hoil_analyze_type(registry, coil_get_element_type(type))
  ELSE IF type.category = TYPE_CATEGORY_VECTOR
  THEN IF type.width = 0 THEN <<SemDiag(ERROR_TYPE_INVALID)>>
       ELSE hoil_analyze_type(registry, coil_get_element_type(type))
  ELSE IF type.category = TYPE_CATEGORY_ARRAY
  THEN hoil_analyze_type(registry, coil_get_element_type(type))
  ELSE IF type.category \in {TYPE_CATEGORY_STRUCT, TYPE_CATEGORY_FUNCTION}
  THEN LET info == find_type_info(registry, type)
       IN IF info = <<>> THEN <<SemDiag(ERROR_TYPE_UNKNOWN)>>
          ELSE analyze_member_types(registry, info[1].members, 1)
  ELSE <<SemDiag(ERROR_TYPE_UNKNOWN)>>

hoil_analyze_global(module, global, globals_table) ==
  IF find_symbol(globals_table, global.name)
  THEN [errors |-> <<SemDiag(ERROR_SEMANTIC_REDEFINED)>>, globals_table |-> globals_table]
  ELSE LET errors == hoil_analyze_type(module.type_registry, global.type)
       IN IF errors # <<>> THEN [errors |-> errors, globals_table |-> globals_table]
          ELSE [errors |-> <<>>, globals_table |-> Append(globals_table, global.name)]

\* the switch over op->kind in the operand loop: 0 when the operand passes
operand_error(module, function, op) ==
  IF op.kind = OPERAND_REGISTER
  THEN IF op.reg >= function.register_count THEN ERROR_SEMANTIC_INVALID_OPERAND ELSE 0
  ELSE IF op.kind = OPERAND_BASIC_BLOCK
  THEN IF ~coil_find_basic_block(function, op.name) THEN ERROR_SEMANTIC_UNDEFINED ELSE 0
  ELSE IF op.kind = OPERAND_FUNCTION
  THEN IF ~coil_find_function(module, op.name) THEN ERROR_SEMANTIC_UNDEFINED ELSE 0
  ELSE IF op.kind = OPERAND_GLOBAL
  THEN IF ~coil_find_global(module, op.name) THEN ERROR_SEMANTIC_UNDEFINED ELSE 0
  ELSE 0

hoil_analyze_instruction(module, function, instr) ==
  LET n == Len(instr.operands)
      bad == {i \in 1..n : operand_error(module, function, instr.operands[i]) # 0}
      invalid == <<SemDiag(ERROR_SEMANTIC_INVALID_OPERAND)>>
  IN IF bad # {}
     THEN <<SemDiag(operand_error(module, function, instr.operands[SetMin(bad)]))>>
     ELSE IF instr.dest.kind = OPERAND_REGISTER /\ instr.dest.reg >= function.register_count
     THEN invalid
     ELSE IF instr.opcode = OPCODE_BR
     THEN IF n # 1 /\ n # 3 THEN invalid
          ELSE IF n = 3 /\ instr.operands[1].kind # OPERAND_REGISTER THEN invalid
          ELSE <<>>
     ELSE IF instr.opcode = OPCODE_CALL
     THEN IF n < 1 THEN invalid
          ELSE IF instr.operands[1].kind # OPERAND_FUNCTION THEN invalid
          ELSE <<>>
     ELSE IF instr.opcode = OPCODE_RET
     THEN IF n > 1 THEN invalid ELSE <<>>
     ELSE <<>>

hoil_analyze_basic_block(module, function, block, locals) ==
  LET n == Len(block.instructions)
      bad == {i \in 1..n :
                hoil_analyze_instruction(module, function, block.instructions[i]) # <<>>}
      control == <<SemDiag(ERROR_SEMANTIC_INVALID_CONTROL)>>
      entered == Append(locals, block.name)
  IN IF find_symbol(locals, block.name)
     THEN [errors |-> <<SemDiag(ERROR_SEMANTIC_REDEFINED)>>, locals |-> locals]
     ELSE IF bad # {}
     THEN [errors |-> hoil_analyze_instruction(module, function,
                                               block.instructions[SetMin(bad)]),
           locals |-> entered]
     ELSE IF n = 0 THEN [errors |-> control, locals |-> entered]
     ELSE IF block.instructions[n].opcode \notin {OPCODE_BR, OPCODE_SWITCH, OPCODE_RET}
     THEN [errors |-> control, locals |-> entered]
     ELSE [errors |-> <<>>, locals |-> entered]

RECURSIVE analyze_blocks(_, _, _, _)
analyze_blocks(module, function, i, locals) ==
  IF i > Len(function.blocks) THEN <<>>
  ELSE LET r == hoil_analyze_basic_block(module, function, function.blocks[i], locals)
       IN IF r.errors # <<>> THEN r.errors
          ELSE analyze_blocks(module, function, i + 1, r.locals)

\* index of the first parameter whose name is already in the local table
duplicate_parameters(function) ==
  {i \in 1..Len(function.parameters) :
     \E j \in 1..(i - 1) : function.parameters[j].name = function.parameters[i].name}

hoil_analyze_function(module, function, globals_table) ==
  LET type_errors == hoil_analyze_type(module.type_registry, function.return_type)
      entered == Append(globals_table, function.name)
      params == [i \in 1..Len(function.parameters) |-> function.parameters[i].name]
  IN IF find_symbol(globals_table, function.name)
     THEN [errors |-> <<SemDiag(ERROR_SEMANTIC_REDEFINED)>>, globals_table |-> globals_table]
     ELSE IF type_errors # <<>>
     THEN [errors |-> type_errors, globals_table |-> globals_table]
     ELSE IF duplicate_parameters(function) # {}
     THEN [errors |-> <<SemDiag(ERROR_SEMANTIC_REDEFINED)>>, globals_table |-> entered]
     ELSE IF function.is_external
     THEN [errors |-> <<>>, globals_table |-> entered]
     ELSE IF ~coil_find_basic_block(function, "ENTRY")
     THEN [errors |-> <<SemDiag(ERROR_SEMANTIC_INVALID_CONTROL)>>, globals_table |-> entered]
     ELSE [errors |-> analyze_blocks(module, function, 1, params),
           globals_table |-> entered]

\* hoil_analyze_module from item i on; the items are the globals, then the
\* functions.  The first item that fails ends the analysis.
RECURSIVE analyze_items(_, _, _)
analyze_items(module, i, globals_table) ==
  LET ng == Len(module.globals)
      r == IF i <= ng
           THEN hoil_analyze_global(module, module.globals[i], globals_table)
           ELSE hoil_analyze_function(module, module.functions[i - ng], globals_table)
  IN IF i > ng + Len(module.functions) THEN <<>>
     ELSE IF r.errors # <<>> THEN r.errors
     ELSE analyze_items(module, i + 1, r.globals_table)

hoil_analyze_module(module) ==
  LET errors == analyze_items(module, 1, <<>>)
  IN [ret |-> IF errors = <<>> THEN 0 ELSE -1, errors |-> errors]

(***************************************************************************)
(* Modules handed to the analyzer                                          *)
(***************************************************************************)
MaxFunctions == 2

r0 == coil_create_reg_operand(0)
r1 == coil_create_reg_operand(1)

SemInstructions ==
  { coil_create_return(<<>>),
    coil_create_return(<<r1>>),
    coil_create_return(<<r0, r0>>),
    coil_create_branch("ENTRY"),
    coil_create_branch("nowhere"),
    coil_create_binary_op(OPCODE_ADD, r0, r0, r1),
    coil_create_binary_op(OPCODE_ADD, coil_create_reg_operand(2), r0, r0),
    coil_create_binary_op(OPCODE_SUB, r0, coil_create_reg_operand(7), r0),
    coil_create_load(r0, coil_create_mem_operand(1, 4, 0, 1)),
    coil_create_load(r0, coil_create_mem_operand(5, 0, 0, 1)),
    coil_create_load(r0, coil_create_mem_operand(0, 0, 9, 4)),
    coil_create_load(r0, coil_create_global_operand("g")),
    coil_create_instruction(OPCODE_CALL, 0, r0, <<coil_create_func_operand("bar")>>),
    coil_create_instruction(OPCODE_CALL, 0, r0, <<r1>>) }

SemBodies ==
  {<<>>} \cup {<<i>> : i \in SemInstructions}
         \cup {<<i, coil_create_return(<<>>)>> : i \in SemInstructions}

ret_block(name) == coil_create_basic_block(name, <<coil_create_return(<<>>)>>)

param(name) == [name |-> name, type |-> COIL_TYPE_INT32]

SemFunctions ==
  LET plain(name, blocks) == coil_create_function(name, COIL_TYPE_VOID, <<>>, FALSE, 2, blocks)
  IN UNION { { plain(name, <<coil_create_basic_block("ENTRY", body)>>) : body \in SemBodies }
             \cup { plain(name, <<ret_block("other")>>),
                    plain(name, <<ret_block("ENTRY"), ret_block("ENTRY")>>),
                    plain(name, <<coil_create_basic_block("ENTRY", <<coil_create_branch("other")>>),
                                  ret_block("other")>>),
                    coil_create_function(name, COIL_TYPE_INT32, <<param("a")>>, TRUE, 0, <<>>),
                    coil_create_function(name, COIL_TYPE_VOID, <<>>, FALSE, 0,
                                         <<ret_block("ENTRY")>>),
                    coil_create_function(name, COIL_TYPE_VOID, <<param("a"), param("a")>>,
                                         FALSE, 2, <<ret_block("ENTRY")>>),
                    coil_create_function(name,
                                         coil_create_type(TYPE_CATEGORY_VECTOR, 0, 0, 0),
                                         <<>>, FALSE, 2, <<ret_block("ENTRY")>>) }
           : name \in {"foo", "bar"} }

SemGlobals ==
  LET g == coil_create_global("g", COIL_TYPE_INT32)
  IN {<<>>, <<g>>, <<g, g>>,
      <<coil_create_global("s", coil_create_type(TYPE_CATEGORY_STRUCT, 0, 0, 0))>>}

SemModules ==
  {coil_create_module(<<109>>, <<>>, globals, functions) :
     globals \in SemGlobals, functions \in SeqOf(SemFunctions, MaxFunctions)}

(***************************************************************************)
(* HOIL lexer (lexer.h, lexer.c).  The source text is kept as the sequence *)
(* of its lexemes, each tagged with the scanner that reads it              *)
(* (scan_identifier, scan_string, or the punctuation switch); the lexer    *)
(* turns a lexeme into a token as the C code does, keyword table included. *)
(***************************************************************************)
TOKEN_EOF == 0
TOKEN_IDENTIFIER == 1
TOKEN_INTEGER == 2
TOKEN_STRING == 4
TOKEN_MODULE == 6
TOKEN_TYPE == 7
TOKEN_CONSTANT == 8
TOKEN_GLOBAL == 9
TOKEN_FUNCTION == 10
TOKEN_EXTERN == 11
TOKEN_TARGET == 12
TOKEN_ENTRY == 13
TOKEN_BR == 14
TOKEN_ALWAYS == 15
TOKEN_RET == 16
TOKEN_CALL == 17
TOKEN_VOID == 18
TOKEN_BOOL == 19
TOKEN_I8 == 20
TOKEN_I16 == 21
TOKEN_I32 == 22
TOKEN_I64 == 23
TOKEN_U8 == 24
TOKEN_U16 == 25
TOKEN_U32 == 26
TOKEN_U64 == 27
TOKEN_F16 == 28
TOKEN_F32 == 29
TOKEN_F64 == 30
TOKEN_PTR == 31
TOKEN_ARRAY == 32
TOKEN_VEC == 33
TOKEN_FUNCTION_TYPE == 34
TOKEN_LESS == 46
TOKEN_GREATER == 47
TOKEN_DOT == 48
TOKEN_ARROW == 49
TOKEN_LPAREN == 50
TOKEN_RPAREN == 51
TOKEN_LBRACE == 54
TOKEN_RBRACE == 55
TOKEN_COMMA == 56
TOKEN_COLON == 57
TOKEN_SEMICOLON == 58
TOKEN_ERROR == 59

keywords ==
  <<[name |-> "MODULE", type |-> TOKEN_MODULE],
    [name |-> "TYPE", type |-> TOKEN_TYPE],
    [name |-> "CONSTANT", type |-> TOKEN_CONSTANT],
    [name |-> "GLOBAL", type |-> TOKEN_GLOBAL],
    [name |-> "FUNCTION", type |-> TOKEN_FUNCTION],
    [name |-> "EXTERN", type |-> TOKEN_EXTERN],
    [name |-> "TARGET", type |-> TOKEN_TARGET],
    [name |-> "ENTRY", type |-> TOKEN_ENTRY],
    [name |-> "BR", type |-> TOKEN_BR],
    [name |-> "ALWAYS", type |-> TOKEN_ALWAYS],
    [name |-> "RET", type |-> TOKEN_RET],
    [name |-> "CALL", type |-> TOKEN_CALL],
    [name |-> "void", type |-> TOKEN_VOID],
    [name |-> "bool", type |-> TOKEN_BOOL],
    [name |-> "i8", type |-> TOKEN_I8],
    [name |-> "i16", type |-> TOKEN_I16],
    [name |-> "i32", type |-> TOKEN_I32],
    [name |-> "i64", type |-> TOKEN_I64],
    [name |-> "u8", type |-> TOKEN_U8],
    [name |-> "u16", type |-> TOKEN_U16],
    [name |-> "u32", type |-> TOKEN_U32],
    [name |-> "u64", type |-> TOKEN_U64],
    [name |-> "f16", type |-> TOKEN_F16],
    [name |-> "f32", type |-> TOKEN_F32],
    [name |-> "f64", type |-> TOKEN_F64],
    [name |-> "ptr", type |-> TOKEN_PTR],
    [name |-> "array", type |-> TOKEN_ARRAY],
    [name |-> "vec", type |-> TOKEN_VEC],
    [name |-> "function", type |-> TOKEN_FUNCTION_TYPE]>>

\* scan_identifier: the first keyword-table entry with this spelling, else
\* an identifier
scan_identifier(text) ==
  LET hits == {k \in 1..Len(keywords) : keywords[k].name = text}
  IN [type |-> IF hits = {} THEN TOKEN_IDENTIFIER ELSE keywords[SetMin(hits)].type,
      text |-> text]

\* the punctuation switch of hoil_lexer_next_token, for the symbols of the
\* sources below
scan_symbol(text) ==
  [type |-> CASE text = "(" -> TOKEN_LPAREN
              [] text = ")" -> TOKEN_RPAREN
              [] text = "{" -> TOKEN_LBRACE
              [] text = "}" -> TOKEN_RBRACE
              [] text = "," -> TOKEN_COMMA
              [] text = ":" -> TOKEN_COLON
              [] text = ";" -> TOKEN_SEMICOLON
              [] text = "<" -> TOKEN_LESS
              [] text = ">" -> TOKEN_GREATER
              [] text = "." -> TOKEN_DOT
              [] text = "->" -> TOKEN_ARROW
              [] OTHER -> TOKEN_ERROR,
   text |-> text]

\* hoil_lexer_next_token on one lexeme
hoil_lexer_next_token(lexeme) ==
  IF lexeme.scan = "identifier" THEN scan_identifier(lexeme.text)
  ELSE IF lexeme.scan = "string" THEN [type |-> TOKEN_STRING, text |-> lexeme.text]
  ELSE scan_symbol(lexeme.text)

\* the tokens of a source text, in order
tokenize(src) == [i \in 1..Len(src) |-> hoil_lexer_next_token(src[i])]

hoil_token_is_type_keyword(type) == type >= TOKEN_VOID /\ type <= TOKEN_FUNCTION_TYPE

(***************************************************************************)
(* HOIL parser (parser.c).  The parser's current_token is the token at     *)
(* position pos of the token sequence; past the end of the text the lexer  *)
(* keeps returning TOKEN_EOF.  A parse function returns the position it    *)
(* stops at, the diagnostics it reported, and its result.                  *)
(***************************************************************************)
ParserDiag(code) == Diag(code, ERROR_CATEGORY_PARSER)

Expected == <<ParserDiag(ERROR_PARSER_EXPECTED_TOKEN)>>

\* body applied to the value of a call: the call is made once
Bind(value, body(_)) == body(value)

current_token(toks, pos) ==
  IF pos > Len(toks) THEN [type |-> TOKEN_EOF, text |-> ""] ELSE toks[pos]

check(toks, pos, type) == current_token(toks, pos).type = type

advance(toks, pos) == IF pos > Len(toks) THEN pos ELSE pos + 1

consume(toks, pos, type) ==
  IF check(toks, pos, type)
  THEN [ok |-> TRUE, pos |-> advance(toks, pos), errors |-> <<>>]
  ELSE [ok |-> FALSE, pos |-> pos, errors |-> Expected]

RECURSIVE synchronize_scan(_, _)
synchronize_scan(toks, pos) ==
  Bind(current_token(toks, pos).type, LAMBDA type :
    IF type = TOKEN_EOF THEN pos
    ELSE IF type = TOKEN_SEMICOLON THEN advance(toks, pos)
    ELSE IF type \in {TOKEN_MODULE, TOKEN_TYPE, TOKEN_CONSTANT, TOKEN_GLOBAL,
                      TOKEN_FUNCTION, TOKEN_EXTERN, TOKEN_TARGET, TOKEN_ENTRY}
    THEN pos
    ELSE synchronize_scan(toks, advance(toks, pos)))

synchronize(toks, pos) == synchronize_scan(toks, advance(toks, pos))

COIL_TYPE_BOOL == TypeOfWord(U32(1, 0, 0, 1))      \* 0x01000001
COIL_TYPE_UINT8 == TypeOfWord(U32(2, 8, 1, 0))     \* 0x02080100
COIL_TYPE_INT16 == TypeOfWord(U32(2, 16, 0, 0))    \* 0x02100000
COIL_TYPE_UINT16 == TypeOfWord(U32(2, 16, 1, 0))   \* 0x02100100
COIL_TYPE_UINT32 == TypeOfWord(U32(2, 32, 1, 0))   \* 0x02200100
COIL_TYPE_INT64 == TypeOfWord(U32(2, 64, 0, 0))    \* 0x02400000
COIL_TYPE_UINT64 == TypeOfWord(U32(2, 64, 1, 0))   \* 0x02400100
COIL_TYPE_FLOAT16 == TypeOfWord(U32(3, 16, 0, 0))  \* 0x03100000
COIL_TYPE_FLOAT32 == TypeOfWord(U32(3, 32, 0, 0))  \* 0x03200000
COIL_TYPE_FLOAT64 == TypeOfWord(U32(3, 64, 0, 0))  \* 0x03400000

\* width = 0x40 | (memory_space & 7), attributes = base_type & 0xFFF
coil_create_pointer_type(base_type, memory_space, qualifiers) ==
  coil_create_type(TYPE_CATEGORY_POINTER, 64 + (memory_space % 8), qualifiers,
                   base_type.attributes)

\* the switch of parse_basic_type: <<>> stands for the default branch
basic_type_of(type) ==
  CASE type = TOKEN_VOID -> <<COIL_TYPE_VOID>>
    [] type = TOKEN_BOOL -> <<COIL_TYPE_BOOL>>
    [] type = TOKEN_I8 -> <<COIL_TYPE_INT8>>
    [] type = TOKEN_I16 -> <<COIL_TYPE_INT16>>
    [] type = TOKEN_I32 -> <<COIL_TYPE_INT32>>
    [] type = TOKEN_I64 -> <<COIL_TYPE_INT64>>
    [] type = TOKEN_U8 -> <<COIL_TYPE_UINT8>>
    [] type = TOKEN_U16 -> <<COIL_TYPE_UINT16>>
    [] type = TOKEN_U32 -> <<COIL_TYPE_UINT32>>
    [] type = TOKEN_U64 -> <<COIL_TYPE_UINT64>>
    [] type = TOKEN_F16 -> <<COIL_TYPE_FLOAT16>>
    [] type = TOKEN_F32 -> <<COIL_TYPE_FLOAT32>>
    [] type = TOKEN_F64 -> <<COIL_TYPE_FLOAT64>>
    [] OTHER -> <<>>

parse_basic_type(toks, pos) ==
  Bind(basic_type_of(current_token(toks, pos).type), LAMBDA basic :
    IF basic # <<>>
    THEN [pos |-> advance(toks, pos), errors |-> <<>>, type |-> basic[1]]
    ELSE [pos |-> pos, errors |-> Expected, type |-> COIL_TYPE_VOID])

\* the qualifier word after the comma of ptr<base, word>
pointer_memory_space(name) ==
  CASE name = "local" -> 1 [] name = "shared" -> 2 [] name = "constant" -> 3
    [] name = "private" -> 4 [] OTHER -> 0

pointer_qualifiers(name) ==
  CASE name = "const" -> 2 [] name = "volatile" -> 4 [] name = "restrict" -> 8
    [] OTHER -> 0

\* the optional ", word" of parse_pointer_type
pointer_qualifier(toks, pos) ==
  Bind(current_token(toks, advance(toks, pos)), LAMBDA token :
    IF ~check(toks, pos, TOKEN_COMMA) THEN [pos |-> pos, errors |-> <<>>, name |-> ""]
    ELSE IF token.type # TOKEN_IDENTIFIER
    THEN [pos |-> advance(toks, pos), errors |-> Expected, name |-> ""]
    ELSE [pos |-> advance(toks, advance(toks, pos)),
          errors |-> IF token.text \in {"global", "local", "shared", "constant",
                                        "private", "const", "volatile", "restrict"}
                     THEN <<>> ELSE <<ParserDiag(ERROR_PARSER_INVALID_SYNTAX)>>,
          name |-> token.text])

RECURSIVE hoil_parse_type(_, _)
parse_pointer_type(toks, pos) ==
  Bind(consume(toks, pos, TOKEN_LESS), LAMBDA less :
    IF ~less.ok THEN [pos |-> less.pos, errors |-> less.errors, type |-> COIL_TYPE_VOID]
    ELSE
  Bind(hoil_parse_type(toks, less.pos), LAMBDA base :
  Bind(pointer_qualifier(toks, base.pos), LAMBDA qualifier :
  Bind(consume(toks, qualifier.pos, TOKEN_GREATER), LAMBDA greater :
    [pos |-> greater.pos,
     errors |-> base.errors \o qualifier.errors \o greater.errors,
     type |-> IF greater.ok
              THEN coil_create_pointer_type(base.type,
                                            pointer_memory_space(qualifier.name),
                                            pointer_qualifiers(qualifier.name))
              ELSE COIL_TYPE_VOID]))))

\* the sources below hold no vec and no array lexeme: those two branches
\* (placed, like the ptr branch, behind the type-keyword test) are left out
hoil_parse_type(toks, pos) ==
  Bind(current_token(toks, pos).type, LAMBDA type :
    IF hoil_token_is_type_keyword(type) THEN parse_basic_type(toks, pos)
    ELSE IF type = TOKEN_PTR THEN parse_pointer_type(toks, advance(toks, pos))
    ELSE IF type = TOKEN_IDENTIFIER
    THEN [pos |-> advance(toks, pos), errors |-> <<ParserDiag(ERROR_TYPE_NOT_FOUND)>>,
          type |-> COIL_TYPE_VOID]
    ELSE [pos |-> pos, errors |-> Expected, type |-> COIL_TYPE_VOID])

parse_function_parameter(toks, pos) ==
  IF ~check(toks, pos, TOKEN_IDENTIFIER)
  THEN [ok |-> FALSE, pos |-> pos, errors |-> Expected, params |-> <<>>]
  ELSE
  Bind(consume(toks, advance(toks, pos), TOKEN_COLON), LAMBDA colon :
    IF ~colon.ok
    THEN [ok |-> FALSE, pos |-> colon.pos, errors |-> colon.errors, params |-> <<>>]
    ELSE
  Bind(hoil_parse_type(toks, colon.pos), LAMBDA type :
    [ok |-> TRUE, pos |-> type.pos, errors |-> type.errors,
     params |-> <<[name |-> current_token(toks, pos).text, type |-> type.type]>>]))

\* the number of '.' tokens that the chain of three match() calls consumes
dots_matched(toks, pos) ==
  IF ~check(toks, pos, TOKEN_DOT) THEN 0
  ELSE IF ~check(toks, pos + 1, TOKEN_DOT) THEN 1
  ELSE IF ~check(toks, pos + 2, TOKEN_DOT) THEN 2 ELSE 3

no_parameters(ok, pos, errors) ==
  [ok |-> ok, pos |-> pos, errors |-> errors, params |-> <<>>, is_variadic |-> FALSE]

\* "..." and the ')' that must follow it
variadic_marker(toks, pos, dots, params, errors) ==
  IF dots < 3 THEN no_parameters(FALSE, pos + dots, errors \o Expected)
  ELSE
  Bind(consume(toks, pos + dots, TOKEN_RPAREN), LAMBDA rparen :
    IF ~rparen.ok THEN no_parameters(FALSE, rparen.pos, errors \o rparen.errors)
    ELSE [ok |-> TRUE, pos |-> rparen.pos, errors |-> errors, params |-> params,
          is_variadic |-> TRUE])

\* the while (true) loop of parse_function_parameters
RECURSIVE parameter_loop(_, _, _, _)
parameter_loop(toks, pos, params, errors) ==
  Bind(dots_matched(toks, pos), LAMBDA dots :
    IF dots > 0 THEN variadic_marker(toks, pos, dots, params, errors)
    ELSE
  Bind(parse_function_parameter(toks, pos), LAMBDA one :
    IF ~one.ok THEN no_parameters(FALSE, one.pos, errors \o one.errors)
    ELSE IF check(toks, one.pos, TOKEN_RPAREN)
    THEN [ok |-> TRUE, pos |-> advance(toks, one.pos), errors |-> errors \o one.errors,
          params |-> params \o one.params, is_variadic |-> FALSE]
    ELSE
  Bind(consume(toks, one.pos, TOKEN_COMMA), LAMBDA comma :
    IF ~comma.ok
    THEN no_parameters(FALSE, comma.pos, errors \o one.errors \o comma.errors)
    ELSE parameter_loop(toks, comma.pos, params \o one.params, errors \o one.errors))))

parse_function_parameters(toks, pos) ==
  Bind(consume(toks, pos, TOKEN_LPAREN), LAMBDA lparen :
    IF ~lparen.ok THEN no_parameters(FALSE, lparen.pos, lparen.errors)
    ELSE IF check(toks, lparen.pos, TOKEN_RPAREN)
    THEN no_parameters(TRUE, advance(toks, lparen.pos), <<>>)
    ELSE parameter_loop(toks, lparen.pos, <<>>, <<>>))

parse_function_return_type(toks, pos) ==
  Bind(consume(toks, pos, TOKEN_ARROW), LAMBDA arrow :
    IF ~arrow.ok
    THEN [pos |-> arrow.pos, errors |-> arrow.errors, type |-> COIL_TYPE_VOID]
    ELSE hoil_parse_type(toks, arrow.pos))

\* the skip loop of parse_function_body: instructions are not parsed
RECURSIVE skip_instructions(_, _)
skip_instructions(toks, pos) ==
  IF current_token(toks, pos).type \in {TOKEN_IDENTIFIER, TOKEN_RBRACE, TOKEN_EOF}
  THEN pos ELSE skip_instructions(toks, advance(toks, pos))

\* the block loop of parse_function_body; blocks are the blocks created in
\* the function so far, and they stay in it when the body fails
RECURSIVE block_loop(_, _, _)
block_loop(toks, pos, blocks) ==
  IF check(toks, pos, TOKEN_RBRACE) \/ check(toks, pos, TOKEN_EOF)
  THEN Bind(consume(toks, pos, TOKEN_RBRACE), LAMBDA rbrace :
         [ok |-> rbrace.ok, pos |-> rbrace.pos, errors |-> rbrace.errors,
          blocks |-> blocks])
  ELSE IF ~check(toks, pos, TOKEN_IDENTIFIER)
  THEN [ok |-> FALSE, pos |-> pos, errors |-> Expected, blocks |-> blocks]
  ELSE
  Bind(consume(toks, advance(toks, pos), TOKEN_COLON), LAMBDA colon :
    IF ~colon.ok
    THEN [ok |-> FALSE, pos |-> colon.pos, errors |-> colon.errors, blocks |-> blocks]
    ELSE block_loop(toks, skip_instructions(toks, colon.pos),
                    Append(blocks,
                           coil_create_basic_block(current_token(toks, pos).text, <<>>))))

parse_function_body(toks, pos) ==
  Bind(consume(toks, pos, TOKEN_LBRACE), LAMBDA lbrace :
    IF ~lbrace.ok
    THEN [ok |-> FALSE, pos |-> lbrace.pos, errors |-> lbrace.errors, blocks |-> <<>>]
    ELSE block_loop(toks, lbrace.pos, <<>>))

item_result(ok, pos, errors, module) ==
  [ok |-> ok, pos |-> pos, errors |-> errors, module |-> module]

\* the function is added to the module before its body or ';' is parsed
function_added(module, name, return_type, parameters, is_external, blocks) ==
  [module EXCEPT
     !.functions = Append(module.functions,
                          coil_create_function(name, return_type, parameters,
                                               is_external, 0, blocks))]

\* hoil_parse_function after the parameter list.  malloc0_null tells whether
\* malloc(0) returns NULL on this platform: coil_create_function allocates
\* param_count * sizeof(function_parameter_t) bytes and gives up on NULL.
function_tail(toks, name, params, module, is_external, malloc0_null) ==
  Bind(parse_function_return_type(toks, params.pos), LAMBDA return_type :
    IF Len(params.params) = 0 /\ malloc0_null
    THEN item_result(FALSE, return_type.pos,
                     params.errors \o return_type.errors
                       \o <<ParserDiag(ERROR_GENERAL_OUT_OF_MEMORY)>>,
                     module)
    ELSE IF is_external
    THEN Bind(consume(toks, return_type.pos, TOKEN_SEMICOLON), LAMBDA semicolon :
           item_result(semicolon.ok, semicolon.pos,
                       params.errors \o return_type.errors \o semicolon.errors,
                       function_added(module, name, return_type.type, params.params,
                                      is_external, <<>>)))
    ELSE Bind(parse_function_body(toks, return_type.pos), LAMBDA body :
           item_result(body.ok, body.pos,
                       params.errors \o return_type.errors \o body.errors,
                       function_added(module, name, return_type.type, params.params,
                                      is_external, body.blocks))))

hoil_parse_function(toks, pos, module, is_external, malloc0_null) ==
  Bind(consume(toks, pos, TOKEN_FUNCTION), LAMBDA keyword :
    IF ~keyword.ok THEN item_result(FALSE, keyword.pos, keyword.errors, module)
    ELSE IF ~check(toks, keyword.pos, TOKEN_IDENTIFIER)
    THEN item_result(FALSE, keyword.pos, Expected, module)
    ELSE
  Bind(parse_function_parameters(toks, advance(toks, keyword.pos)), LAMBDA params :
    IF ~params.ok THEN item_result(FALSE, params.pos, params.errors, module)
    ELSE function_tail(toks, current_token(toks, keyword.pos).text, params, module,
                       is_external, malloc0_null)))

\* the sources below hold no '=': the initializer branch is left out
hoil_parse_global(toks, pos, module, is_constant) ==
  Bind(consume(toks, pos, IF is_constant THEN TOKEN_CONSTANT ELSE TOKEN_GLOBAL),
       LAMBDA keyword :
    IF ~keyword.ok THEN item_result(FALSE, keyword.pos, keyword.errors, module)
    ELSE IF ~check(toks, keyword.pos, TOKEN_IDENTIFIER)
    THEN item_result(FALSE, keyword.pos, Expected, module)
    ELSE
  Bind(consume(toks, advance(toks, keyword.pos), TOKEN_COLON), LAMBDA colon :
    IF ~colon.ok THEN item_result(FALSE, colon.pos, colon.errors, module)
    ELSE
  Bind(hoil_parse_type(toks, colon.pos), LAMBDA type :
  Bind(consume(toks, type.pos, TOKEN_SEMICOLON), LAMBDA semicolon :
    IF ~semicolon.ok
    THEN item_result(FALSE, semicolon.pos, type.errors \o semicolon.errors, module)
    ELSE item_result(TRUE, semicolon.pos, type.errors,
                     [module EXCEPT
                        !.globals = Append(module.globals,
                                           coil_create_global(
                                             current_token(toks, keyword.pos).text,
                                             type.type))])))))

\* if (!parse_x(...)) synchronize(parser);
recover(toks, result) ==
  [pos |-> IF result.ok THEN result.pos ELSE synchronize(toks, result.pos),
   errors |-> result.errors, module |-> result.module]

unexpected(toks, pos, code, module) ==
  [pos |-> synchronize(toks, pos), errors |-> <<ParserDiag(code)>>, module |-> module]

\* one round of the item loop of hoil_parse_module, synchronize included.
\* The sources below hold no TYPE and no TARGET item.
parse_module_item(toks, pos, module, malloc0_null) ==
  Bind(current_token(toks, pos).type, LAMBDA type :
    CASE type = TOKEN_GLOBAL -> recover(toks, hoil_parse_global(toks, pos, module, FALSE))
      [] type = TOKEN_CONSTANT -> recover(toks, hoil_parse_global(toks, pos, module, TRUE))
      [] type = TOKEN_EXTERN ->
           IF check(toks, advance(toks, pos), TOKEN_FUNCTION)
           THEN recover(toks, hoil_parse_function(toks, advance(toks, pos), module, TRUE,
                                                  malloc0_null))
           ELSE unexpected(toks, advance(toks, pos), ERROR_PARSER_EXPECTED_TOKEN, module)
      [] type = TOKEN_FUNCTION ->
           recover(toks, hoil_parse_function(toks, pos, module, FALSE, malloc0_null))
      [] type \notin {TOKEN_GLOBAL, TOKEN_CONSTANT, TOKEN_EXTERN, TOKEN_FUNCTION,
                      TOKEN_TYPE, TOKEN_TARGET} ->
           unexpected(toks, pos, ERROR_PARSER_UNEXPECTED_TOKEN, module))

\* hoil_parse_module up to coil_create_module: MODULE "name" ;
parse_module_header(toks) ==
  Bind(consume(toks, 1, TOKEN_MODULE), LAMBDA keyword :
    IF ~keyword.ok THEN item_result(FALSE, 1, keyword.errors, NoModule)
    ELSE IF ~check(toks, keyword.pos, TOKEN_STRING)
    THEN item_result(FALSE, 1, Expected, NoModule)
    ELSE
  Bind(consume(toks, advance(toks, keyword.pos), TOKEN_SEMICOLON), LAMBDA semicolon :
    IF ~semicolon.ok THEN item_result(FALSE, 1, semicolon.errors, NoModule)
    ELSE item_result(TRUE, semicolon.pos, <<>>,
                     coil_create_module(current_token(toks, keyword.pos).text,
                                        <<>>, <<>>, <<>>))))

(***************************************************************************)
(* Values of the components that a specification leaves idle               *)
(***************************************************************************)
CodecQuiet ==
  /\ bin_module = NoModule /\ buffer_size = 0
  /\ bin_memory = <<>> /\ buffer = <<>> /\ bin_origin = "none"
  /\ to_binary_ret = Pending /\ parse_state = "idle" /\ parsed_module = NoModule
  /\ bin_errors = <<>> /\ oob_read = FALSE

CodecIdle == endian = "little" /\ CodecQuiet

SemIdle ==
  /\ sem_module = NoModule /\ sem_phase = "done" /\ sem_index = 0
  /\ global_symbols = <<>> /\ sem_errors = <<>> /\ sem_analyzed = <<>>
  /\ sem_ret = Pending

HcIdle ==
  /\ source = <<>> /\ hc_validate = TRUE /\ hc_malloc0 = FALSE
  /\ hc_phase = "done" /\ hc_pos = 0 /\ hc_module = NoModule
  /\ hc_errors = <<>> /\ hc_had_error = FALSE /\ hc_ret = "pending"

IcIdle ==
  /\ ic_instr = coil_create_return(<<>>) /\ ic_fill = 0 /\ ic_bytes = <<>>
  /\ ic_phase = "idle" /\ ic_from_binary = <<>> /\ ic_decoded = <<>>

NoFunction == coil_create_function("", COIL_TYPE_VOID, <<>>, TRUE, 0, <<>>)

TrIdle ==
  /\ tr_function = NoFunction /\ tr_module = NoModule
  /\ tr_buffer = [data |-> <<>>, capacity |-> 1] /\ tr_heap = 0
  /\ tr_emitted = <<>> /\ tr_ret = Pending /\ tr_errors = <<>>
  /\ tr_mappings = <<>> /\ tr_guard = FALSE

OPT_LEVEL_NONE == 0
OPT_LEVEL_BASIC == 1
OPT_LEVEL_NORMAL == 2
OPT_LEVEL_AGGRESSIVE == 3

NoCall == [op |-> "none", f |-> 0, b |-> 0]

OptIdle ==
  /\ opt_module = coil_create_module("", <<>>, <<>>, <<>>)
  /\ opt_before = coil_create_module("", <<>>, <<>>, <<>>)
  /\ opt_level = OPT_LEVEL_NONE /\ opt_registers = 0 /\ opt_call = NoCall
  /\ opt_ret = Pending /\ opt_errors = <<>>

\* coil_create_type_registry: no entries, room for sixteen
NewRegistry == [types |-> <<>>, capacity |-> 16]

TyIdle ==
  /\ ty_registry = NewRegistry /\ ty_heap = 0 /\ ty_created = <<>> /\ ty_compat = <<>>
  /\ ty_composite = <<>>

\* coil_create_error_context: the context is zeroed, so there are no
\* callbacks, no history and the three counters are 0
coil_create_error_context ==
  [callbacks |-> <<>>, history |-> <<>>,
   error_count |-> 0, warning_count |-> 0, info_count |-> 0]

SkIdle ==
  /\ sink_context = coil_create_error_context /\ sink_stream = <<>> /\ sink_made = 0
  /\ sink_reports = <<>> /\ sink_invoked = <<>> /\ sink_ret = Pending

\* a pointer that holds no object
NULL == 0

\* the assembler before coil_create_assembler has filled it in
\* what the assembler knows of a module: whether one is loaded, whether it
\* names required features ("none", "met" by the default target, "unmet"),
\* how many functions with a body it has, and whether they need more
\* registers than the target has
NoLoadedModule ==
  [loaded |-> FALSE, required |-> "none", function_count |-> 0, spills |-> FALSE]

NoAssembler ==
  [target |-> NULL, translator |-> NULL, translator_target |-> NULL,
   optimizer |-> NULL, optimizer_target |-> NULL, optimizer_level |-> OPT_LEVEL_NONE,
   module |-> NoLoadedModule, opt_level |-> OPT_LEVEL_NONE, had_error |-> FALSE]

LxIdle ==
  /\ lx_source = <<>> /\ lx_current = 0 /\ lx_token = <<>> /\ lx_errors = <<>>

AsIdle ==
  /\ as_targets = <<>> /\ as_assembler = NoAssembler
  /\ as_run = <<>> /\ as_ret = Pending /\ as_errors = <<>>

(***************************************************************************)
(* Specification of the analyzer: hoil_analyze_module, one action per item *)
(***************************************************************************)
SemInit ==
  /\ sem_module \in SemModules
  /\ sem_phase = "running" /\ sem_index = 0 /\ global_symbols = <<>>
  /\ sem_errors = <<>> /\ sem_analyzed = <<>> /\ sem_ret = Pending
  /\ CodecIdle /\ HcIdle /\ IcIdle /\ TrIdle /\ OptIdle /\ TyIdle /\ SkIdle /\ AsIdle /\ LxIdle

\* one round of the loop over module->globals
AnalyzeGlobal ==
  /\ sem_phase = "running"
  /\ sem_index < Len(sem_module.globals)
  /\ LET r == hoil_analyze_global(sem_module, sem_module.globals[sem_index + 1],
                                  global_symbols)
     IN /\ sem_errors' = sem_errors \o r.errors
        /\ global_symbols' = r.globals_table
        /\ IF r.errors # <<>>
           THEN sem_ret' = -1 /\ sem_phase' = "done" /\ sem_index' = sem_index
           ELSE sem_ret' = sem_ret /\ sem_phase' = sem_phase /\ sem_index' = sem_index + 1
  /\ UNCHANGED <<sem_module, sem_analyzed, codecVars, hcVars, icVars, trVars, optVars, tyVars, skVars, asVars, lxVars>>

\* one round of the loop over module->functions
AnalyzeFunction ==
  /\ sem_phase = "running"
  /\ sem_index >= Len(sem_module.globals)
  /\ sem_index < Len(sem_module.globals) + Len(sem_module.functions)
  /\ LET i == sem_index - Len(sem_module.globals) + 1
         r == hoil_analyze_function(sem_module, sem_module.functions[i], global_symbols)
     IN /\ sem_errors' = sem_errors \o r.errors
        /\ global_symbols' = r.globals_table
        /\ sem_analyzed' = Append(sem_analyzed, i)
        /\ IF r.errors # <<>>
           THEN sem_ret' = -1 /\ sem_phase' = "done" /\ sem_index' = sem_index
           ELSE sem_ret' = sem_ret /\ sem_phase' = sem_phase /\ sem_index' = sem_index + 1
  /\ UNCHANGED <<sem_module, codecVars, hcVars, icVars, trVars, optVars, tyVars, skVars, asVars, lxVars>>

\* both loops ran to their end: return 0
AnalyzeModuleReturn ==
  /\ sem_phase = "running"
  /\ sem_index = Len(sem_module.globals) + Len(sem_module.functions)
  /\ sem_ret' = 0 /\ sem_phase' = "done"
  /\ UNCHANGED <<sem_module, sem_index, global_symbols, sem_errors, sem_analyzed,
                 codecVars, hcVars, icVars, trVars, optVars, tyVars, skVars, asVars, lxVars>>

SemNext == AnalyzeGlobal \/ AnalyzeFunction \/ AnalyzeModuleReturn

SpecSem == SemInit /\ [][SemNext]_vars

\* every register an instruction names: its destination, its register
\* operands, and the base and index registers of its memory operands
registers_of(instr) ==
  (IF instr.dest.kind = OPERAND_REGISTER THEN {instr.dest.reg} ELSE {})
  \cup UNION { IF instr.operands[i].kind = OPERAND_REGISTER
                  THEN {instr.operands[i].reg}
               ELSE IF instr.operands[i].kind = OPERAND_MEMORY
                  THEN {instr.operands[i].base, instr.operands[i].index}
               ELSE {} : i \in 1..Len(instr.operands) }

well_formed_block(function, block) ==
  /\ Len(block.instructions) > 0
  /\ Last(block.instructions).opcode \in {OPCODE_BR, OPCODE_SWITCH, OPCODE_RET}
  /\ \A i \in 1..Len(block.instructions) :
       \A r \in registers_of(block.instructions[i]) : r < function.register_count

\* C3: when hoil_analyze_module returns 0, every basic block of every
\* non-external function is non-empty, ends in BR, SWITCH or RET, and names
\* only registers (destination, register operands, base and index of memory
\* operands) below the function's register_count.
C3_AcceptedModuleWellFormed ==
  (sem_phase = "done" /\ sem_ret = 0) =>
    \A i \in 1..Len(sem_module.functions) :
      LET function == sem_module.functions[i]
      IN ~function.is_external =>
           \A b \in 1..Len(function.blocks) :
             well_formed_block(function, function.blocks[b])

\* the function fails hoil_analyze_function whatever was analyzed before it
fails_alone(module, function) ==
  hoil_analyze_function(module, function, <<>>).errors # <<>>

\* C8: a function that fails aborts only its own analysis: once the loop
\* over the functions has started, hoil_analyze_function is called on every
\* function of the module, and every function that fails on its own has
\* contributed a diagnostic.
C8_FailureAbortsOnlyThatFunction ==
  (sem_phase = "done" /\ sem_analyzed # <<>>) =>
    /\ Len(sem_analyzed) = Len(sem_module.functions)
    /\ Len(sem_errors) >=
         Cardinality({i \in 1..Len(sem_module.functions) :
                        fails_alone(sem_module, sem_module.functions[i])})

(***************************************************************************)
(* Specification of the binary container: a module is encoded, or a file   *)
(* is written by hand, and the file is parsed.                             *)
(***************************************************************************)
MaxNameLen == 2
MaxSections == 2

\* module names: NULL, or a C string of 'm' and '2'
ModuleNames == {NullName} \cup SeqOf({109, 50}, MaxNameLen)

CodecFunction == coil_create_function("foo", COIL_TYPE_VOID, <<>>, FALSE, 1, <<ret_block("ENTRY")>>)

CodecModules ==
  {coil_create_module(name, <<>>, globals, functions) :
     name \in ModuleNames,
     globals \in {<<>>, <<coil_create_global("g", COIL_TYPE_INT32)>>},
     functions \in {<<>>, <<CodecFunction>>}}

BufferSizes == {0, 15, 16, 20, 27, 28, 29, 30, 31, 64}

RECURSIVE Flatten(_)
Flatten(seqs) == IF seqs = <<>> THEN <<>> ELSE Head(seqs) \o Flatten(Tail(seqs))

file_header(e, magic, version, section_count) ==
  Bytes32(magic, e) \o Bytes32(version, e) \o Bytes32(section_count, e)
  \o Bytes32(Word(0), e)

table_entry(e, section) ==
  Bytes32(section.type, e) \o Bytes32(section.offset, e) \o Bytes32(section.size, e)

Versions ==
  {U32(0, 1, 0, 0), U32(1, 0, 0, 0), U32(1, 0, 5, 7), U32(1, 1, 0, 0),
   U32(0, 2, 0, 0), U32(2, 0, 0, 0), U32(0, 0, 0, 1)}

SectionEntries ==
  [type : {Word(SECTION_TYPE_TYPE), Word(SECTION_TYPE_METADATA)},
   offset : {Word(28), Word(40), U32(255, 255, 255, 240), U32(255, 255, 255, 255)},
   size : {Word(0), Word(2), Word(32), U32(255, 255, 255, 240)}]

\* files that differ from the encoder's output in magic and version only
HeaderFiles(e) ==
  {file_header(e, magic, version, Word(1))
   \o table_entry(e, [type |-> Word(SECTION_TYPE_METADATA), offset |-> Word(28),
                      size |-> Word(2)])
   \o <<109, 0>> : magic \in {COIL_MAGIC, U32(76, 73, 79, 67)}, version \in Versions}

\* files with a supported header and any section table
SectionFiles(e) ==
  {file_header(e, COIL_MAGIC, U32(1, 0, 0, 0), Word(declared))
   \o Flatten([i \in 1..Len(sections) |-> table_entry(e, sections[i])])
   \o payload :
     sections \in SeqOf(SectionEntries, MaxSections),
     declared \in 0..MaxSections,
     payload \in {<<>>, <<109, 0>>, <<109, 109>>}}

CraftedFiles(e) ==
  HeaderFiles(e) \cup SectionFiles(e)
  \cup {SubSeq(f, 1, n) : f \in HeaderFiles(e), n \in {1, 8, 15, 16, 27}}

CodecInit ==
  /\ endian \in {"little", "big"}
  /\ bin_module = NoModule /\ buffer_size = 0
  /\ bin_memory = <<>> /\ buffer = <<>> /\ bin_origin = "none"
  /\ to_binary_ret = Pending /\ parse_state = "idle" /\ parsed_module = NoModule
  /\ bin_errors = <<>> /\ oob_read = FALSE
  /\ SemIdle /\ HcIdle /\ IcIdle /\ TrIdle /\ OptIdle /\ TyIdle /\ SkIdle /\ AsIdle /\ LxIdle

\* coil_module_to_binary on a buffer of buffer_size bytes; the bytes it
\* reports as written become the file (hoil_write_binary)
EncodeModule ==
  /\ bin_origin = "none"
  /\ \E module \in CodecModules, size \in BufferSizes, fill \in {0, 204} :
       LET r == coil_module_to_binary(module, size, fill, endian)
       IN /\ bin_module' = module
          /\ buffer_size' = size
          /\ bin_memory' = r.mem
          /\ to_binary_ret' = r.ret
          /\ buffer' = IF r.ret > 0 THEN SubSeq(r.mem, 1, r.ret) ELSE <<>>
  /\ bin_origin' = "encoded"
  /\ UNCHANGED <<endian, parse_state, parsed_module, bin_errors, oob_read,
                 semVars, hcVars, icVars, trVars, optVars, tyVars, skVars, asVars, lxVars>>

\* a file that did not come from the encoder
CraftFile ==
  /\ bin_origin = "none"
  /\ buffer' \in CraftedFiles(endian)
  /\ bin_origin' = "crafted"
  /\ UNCHANGED <<endian, bin_module, buffer_size, bin_memory, to_binary_ret,
                 parse_state, parsed_module, bin_errors, oob_read,
                 semVars, hcVars, icVars, trVars, optVars, tyVars, skVars, asVars, lxVars>>

\* coil_parse_binary(parser, buffer, Len(buffer))
ParseBinary ==
  /\ bin_origin # "none"
  /\ parse_state = "idle"
  /\ \E wild \in BOOLEAN :
       LET r == coil_parse_binary(buffer, endian, wild)
       IN /\ parsed_module' = r.module
          /\ bin_errors' = r.errors
          /\ oob_read' = r.oob
  /\ parse_state' = "parsed"
  /\ UNCHANGED <<endian, bin_module, buffer_size, bin_memory, buffer, bin_origin,
                 to_binary_ret, semVars, hcVars, icVars, trVars, optVars, tyVars, skVars, asVars, lxVars>>

CodecNext == EncodeModule \/ CraftFile \/ ParseBinary

SpecCodec == CodecInit /\ [][CodecNext]_vars

\* what the round trip is to preserve of a function: its signature, its
\* block names, and the opcode and operand kinds of every instruction
function_shape(function) ==
  [name |-> function.name, return_type |-> function.return_type,
   parameters |-> function.parameters, is_external |-> function.is_external,
   blocks |-> [b \in 1..Len(function.blocks) |->
                 [name |-> function.blocks[b].name,
                  instructions |->
                    [i \in 1..Len(function.blocks[b].instructions) |->
                       LET instr == function.blocks[b].instructions[i]
                       IN [opcode |-> instr.opcode,
                           operands |-> [k \in 1..Len(instr.operands) |->
                                           instr.operands[k].kind]]]]]]

same_module(a, b) ==
  /\ a.name = b.name
  /\ a.globals = b.globals
  /\ Len(a.functions) = Len(b.functions)
  /\ \A i \in 1..Len(a.functions) :
       function_shape(a.functions[i]) = function_shape(b.functions[i])

\* C1: for every module the analyzer accepts, parsing the bytes written by
\* coil_module_to_binary succeeds and gives back a module with the same
\* name, globals, function signatures, block names and instruction shapes.
C1_BinaryRoundTrip ==
  (/\ parse_state = "parsed" /\ bin_origin = "encoded" /\ to_binary_ret > 0
   /\ hoil_analyze_module(bin_module).ret = 0)
  => (~parsed_module.isnull /\ same_module(parsed_module, bin_module))

\* C2: the buffer written by coil_module_to_binary starts with the bytes
\* 43 4F 49 4C (magic) followed by 01 00 00 00 (version).
C2_HeaderBytesExact ==
  (bin_origin = "encoded" /\ to_binary_ret > 0)
  => (SubSeq(buffer, 1, 4) = <<67, 79, 73, 76>> /\ SubSeq(buffer, 5, 8) = <<1, 0, 0, 0>>)

\* the section-table entries that are completely inside the file
table_entries(data, e) ==
  LET declared == Load32(data, 8, e)
      present == (Len(data) - 16) \div 12
      n == IF declared[1] > 0 THEN present ELSE Min(declared[2], present)
  IN [i \in 1..n |-> [type |-> Load32(data, 16 + (i - 1) * 12, e),
                      offset |-> Load32(data, 16 + (i - 1) * 12 + 4, e),
                      size |-> Load32(data, 16 + (i - 1) * 12 + 8, e)]]

\* [offset, offset + size) lies inside a file of n bytes (n < 2^16), computed
\* without wrapping
range_fits(section, n) ==
  /\ section.offset[1] = 0 /\ section.size[1] = 0
  /\ section.offset[2] + section.size[2] <= n

\* C6: once the header checks on size, magic, version and section count have
\* passed, a section-table entry whose range [offset, offset+size) does not
\* lie inside the buffer makes coil_parse_binary fail with 502 and return no
\* module, and the parser never reads outside the buffer.
C6_SectionRangeChecked ==
  (/\ parse_state = "parsed" /\ Len(buffer) >= 16
   /\ Codes(bin_errors) \cap {ERROR_BINARY_INVALID_FORMAT, ERROR_BINARY_UNSUPPORTED_VER} = {})
  => /\ ~oob_read
     /\ (\E i \in DOMAIN table_entries(buffer, endian) :
           ~range_fits(table_entries(buffer, endian)[i], Len(buffer)))
        => (parsed_module.isnull /\ ERROR_BINARY_CORRUPT \in Codes(bin_errors))

\* C7: for a buffer whose magic word is correct, coil_parse_binary reports
\* 501 exactly when the MM byte of the version word 0x00MMmmpp at offset 4
\* is not 1.
C7_MajorVersionGate ==
  (/\ parse_state = "parsed" /\ Len(buffer) >= 16
   /\ Load32(buffer, 0, endian) = COIL_MAGIC)
  => (ERROR_BINARY_UNSUPPORTED_VER \in Codes(bin_errors)
        <=> Load32(buffer, 4, endian)[1] % 256 # 1)

(***************************************************************************)
(* Specification of the front end: hoil_compile_string (hoil_compiler.c)   *)
(* on a source text, one action per module item.                           *)
(***************************************************************************)
MaxItems == 2

word(text) == [scan |-> "identifier", text |-> text]
sym(text) == [scan |-> "symbol", text |-> text]

\* MODULE "m";
ModuleHeader == <<word("MODULE"), [scan |-> "string", text |-> "m"], sym(";")>>

\* FUNCTION name() -> void { label: RET; }
function_item(name, label) ==
  <<word("FUNCTION"), word(name), sym("("), sym(")"), sym("->"), word("void"),
    sym("{"), word(label), sym(":"), word("RET"), sym(";"), sym("}")>>

\* EXTERN FUNCTION name(params) -> i32;
extern_item(name, params) ==
  <<word("EXTERN"), word("FUNCTION"), word(name), sym("(")>> \o params
  \o <<sym(")"), sym("->"), word("i32"), sym(";")>>

SourceItems ==
  { function_item("foo", "ENTRY"),
    function_item("bar", "other"),
    extern_item("printf", <<word("fmt"), sym(":"), word("ptr"), sym("<"), word("i8"),
                            sym(">")>>),
    extern_item("puts", <<word("s"), sym(":"), word("i32")>>),
    extern_item("foo", <<>>),
    <<word("GLOBAL"), word("x"), sym(":"), word("i32"), sym(";")>> }

Sources ==
  {header \o Flatten(items) :
     header \in {ModuleHeader, <<word("MODULE"), sym(";")>>},
     items \in SeqOf(SourceItems, MaxItems)}

HcInit ==
  /\ source \in Sources
  /\ hc_validate \in BOOLEAN
  /\ hc_malloc0 \in BOOLEAN
  /\ hc_phase = "start" /\ hc_pos = 1 /\ hc_module = NoModule
  /\ hc_errors = <<>> /\ hc_had_error = FALSE /\ hc_ret = "pending"
  /\ CodecIdle /\ SemIdle /\ IcIdle /\ TrIdle /\ OptIdle /\ TyIdle /\ SkIdle /\ AsIdle /\ LxIdle

\* hoil_parse_module up to the item loop; a bad header ends the compilation
ParseModuleHeader ==
  /\ hc_phase = "start"
  /\ LET r == parse_module_header(tokenize(source))
     IN /\ hc_errors' = hc_errors \o r.errors
        /\ hc_module' = r.module
        /\ hc_pos' = r.pos
        /\ IF r.ok
           THEN hc_phase' = "items" /\ hc_had_error' = FALSE /\ hc_ret' = hc_ret
           ELSE hc_phase' = "done" /\ hc_had_error' = TRUE /\ hc_ret' = "null"
  /\ UNCHANGED <<source, hc_validate, hc_malloc0, codecVars, semVars, icVars, trVars, optVars, tyVars, skVars, asVars, lxVars>>

\* one round of the item loop of hoil_parse_module
ParseModuleItem ==
  /\ hc_phase = "items"
  /\ ~check(tokenize(source), hc_pos, TOKEN_EOF)
  /\ LET r == parse_module_item(tokenize(source), hc_pos, hc_module, hc_malloc0)
     IN /\ hc_errors' = hc_errors \o r.errors
        /\ hc_module' = r.module
        /\ hc_pos' = r.pos
  /\ UNCHANGED <<source, hc_validate, hc_malloc0, hc_phase, hc_had_error, hc_ret,
                 codecVars, semVars, icVars, trVars, optVars, tyVars, skVars, asVars, lxVars>>

\* the parser reached the end of the text: hoil_compile_string validates the
\* module (when asked to) and returns
ValidateAndReturn ==
  /\ hc_phase = "items"
  /\ check(tokenize(source), hc_pos, TOKEN_EOF)
  /\ LET r == IF hc_validate THEN hoil_analyze_module(hc_module)
                             ELSE [ret |-> 0, errors |-> <<>>]
     IN /\ hc_errors' = hc_errors \o r.errors
        /\ hc_had_error' = (r.ret # 0)
        /\ hc_ret' = IF r.ret # 0 THEN "null" ELSE "module"
  /\ hc_phase' = "done"
  /\ UNCHANGED <<source, hc_validate, hc_malloc0, hc_pos, hc_module,
                 codecVars, semVars, icVars, trVars, optVars, tyVars, skVars, asVars, lxVars>>

HcNext == ParseModuleHeader \/ ParseModuleItem \/ ValidateAndReturn

SpecCompile == HcInit /\ [][HcNext]_vars

semantic_errors(errors) == SelectSeq(errors, LAMBDA d : d.category = ERROR_CATEGORY_SEMANTIC)

\* C9: compiling a module that holds two declarations
\* FUNCTION foo() -> void { ENTRY: RET; } makes the analyzer report exactly
\* one error, with code 301 (ERROR_SEMANTIC_REDEFINED) and category semantic.
C9_DuplicateFunctionReported ==
  (/\ source = ModuleHeader \o function_item("foo", "ENTRY") \o function_item("foo", "ENTRY")
   /\ hc_validate /\ hc_phase = "done")
  => semantic_errors(hc_errors) = <<SemDiag(ERROR_SEMANTIC_REDEFINED)>>

\* C10: parsing MODULE "m"; EXTERN FUNCTION printf(fmt: ptr<i8>) -> i32;
\* gives a module with exactly one function, which is external, has the one
\* parameter fmt of type pointer-to-i8, and returns i32.
C10_ExternPrintfParsed ==
  (/\ source = ModuleHeader \o extern_item("printf", <<word("fmt"), sym(":"), word("ptr"),
                                                       sym("<"), word("i8"), sym(">")>>)
   /\ hc_phase = "done")
  => /\ ~hc_module.isnull
     /\ Len(hc_module.functions) = 1
     /\ hc_module.functions[1].is_external
     /\ hc_module.functions[1].parameters =
          <<[name |-> "fmt", type |-> coil_create_pointer_type(COIL_TYPE_INT8, 0, 0)]>>
     /\ hc_module.functions[1].return_type = COIL_TYPE_INT32

(***************************************************************************)
(* Binary form of one instruction: coil_instruction_to_binary and          *)
(* coil_instruction_from_binary (instruction.c), coil_decode_instruction   *)
(* (instruction_decoder.c).                                                *)
(* [opcode:8][flags:8][operand count:8][destination:8][operands...]        *)
(***************************************************************************)
\* (value >> (8 * k)) & 0xFF, on the low three bytes of a two's complement value
Byte(value, k) ==
  CASE k = 0 -> (value % 16777216) % 256
    [] k = 1 -> ((value % 16777216) \div 256) % 256
    [] k = 2 -> (value % 16777216) \div 65536

\* the four bytes that the operand loop stores for operand op; <<>> when the
\* loop stores nothing for its kind
operand_bytes(op) ==
  IF op.kind = OPERAND_REGISTER
  THEN <<OPERAND_REGISTER, Byte(op.reg, 0), Byte(op.reg, 1), Byte(op.reg, 2)>>
  ELSE IF op.kind = OPERAND_IMMEDIATE
  THEN <<OPERAND_IMMEDIATE, Byte(op.imm, 0), Byte(op.imm, 1), Byte(op.imm, 2)>>
  ELSE <<>>

RECURSIVE write_operands(_, _, _)
write_operands(mem, operands, i) ==
  IF i > Len(operands) THEN mem
  ELSE write_operands(WriteAt(mem, 4 * i, operand_bytes(operands[i])), operands, i + 1)

\* mem is the caller's buffer as it is before the call
coil_instruction_to_binary(instr, mem) ==
  IF Len(mem) < 4 THEN [ret |-> 0 - 1, mem |-> mem]
  ELSE
  Bind(WriteAt(mem, 0, <<instr.opcode % 256, instr.flags, Len(instr.operands),
                         IF instr.dest.kind = OPERAND_REGISTER
                         THEN instr.dest.reg % 256 ELSE 0>>),
       LAMBDA header :
    IF Len(mem) < 4 + 4 * Len(instr.operands) THEN [ret |-> 0 - 1, mem |-> header]
    ELSE [ret |-> 4 + 4 * Len(instr.operands),
          mem |-> write_operands(header, instr.operands, 1)])

\* data[at] | data[at + 1] << 8 | data[at + 2] << 16, at counted from 0
Load24(data, at) == data[at + 1] + 256 * data[at + 2] + 65536 * data[at + 3]

NoInstruction == [status |-> "null", instr |-> coil_create_instruction(0, 0, NoOperand, <<>>)]

\* the operand loop of coil_instruction_from_binary.  wild[i] is what the
\* freshly allocated operands[i] holds: the loop leaves it as it is when the
\* kind byte is neither OPERAND_REGISTER nor OPERAND_IMMEDIATE.
read_operands(data, count, wild) ==
  [i \in 1..count |->
     IF data[4 * i + 1] = OPERAND_REGISTER
     THEN coil_create_reg_operand(Load24(data, 4 * i + 1))
     ELSE IF data[4 * i + 1] = OPERAND_IMMEDIATE
     THEN coil_create_imm_operand(Load24(data, 4 * i + 1))
     ELSE wild[i]]

\* clone_operands calls strdup on the name pointer of a block, function or
\* global operand: on an operand that was never initialised it faults
coil_instruction_from_binary(data, wild) ==
  IF Len(data) < 4 THEN NoInstruction
  ELSE IF Len(data) < 4 + data[3] * 4 THEN NoInstruction
  ELSE
  Bind(read_operands(data, data[3], wild), LAMBDA operands :
    IF \E i \in 1..data[3] :
         /\ data[4 * i + 1] \notin {OPERAND_REGISTER, OPERAND_IMMEDIATE}
         /\ operands[i].kind \in {OPERAND_BASIC_BLOCK, OPERAND_FUNCTION, OPERAND_GLOBAL}
    THEN [NoInstruction EXCEPT !.status = "fault"]
    ELSE [status |-> "instr",
          instr |-> coil_create_instruction(data[1], data[2],
                                            coil_create_reg_operand(data[4]),
                                            operands)])

\* the indices of opcode_mnemonics that hold a name; the table has
\* opcode_mnemonics_size entries (its 0x80-0xEF filler is 96 entries long)
opcode_mnemonics_size == 240

NamedOpcodes ==
  (1..10) \cup (16..21) \cup (32..37) \cup (48..52) \cup (64..67) \cup (80..82)
  \cup (96..104) \cup (112..118) \cup (224..227)

opcode_operand_counts(opcode) ==
  CASE opcode \in {6, 7, 19, 48, 51} \cup (112..118) -> 1
    [] opcode \in {10, 104} -> 3
    [] opcode \in {50, 64, 65, 66, 67} -> 255
    [] opcode \in ((1..5) \cup {8, 9, 16, 17, 18, 20, 21} \cup (32..37) \cup {49, 52}
                   \cup (80..82) \cup (96..103)) -> 2
    [] OTHER -> 0

coil_is_valid_instruction(opcode, operand_count) ==
  IF opcode >= opcode_mnemonics_size \/ opcode \notin NamedOpcodes THEN FALSE
  ELSE IF opcode_operand_counts(opcode) = 255 THEN TRUE
  ELSE opcode_operand_counts(opcode) = operand_count

\* (int32_t) of a word
Signed32(w) == IF w[1] >= 32768 THEN (w[1] - 65536) * 65536 + w[2] ELSE w[1] * 65536 + w[2]

Corrupt == <<BinDiag(ERROR_BINARY_CORRUPT)>>

\* decode_operand: size is the number of bytes the operand takes, 0 on error
decode_operand(data, offset, e) ==
  IF offset + 1 > Len(data) THEN [size |-> 0, operand |-> NoOperand, errors |-> Corrupt]
  ELSE
  Bind(data[offset + 1], LAMBDA kind :
    CASE kind \in {OPERAND_REGISTER, OPERAND_IMMEDIATE} ->
           IF offset + 4 > Len(data)
           THEN [size |-> 0, operand |-> NoOperand, errors |-> Corrupt]
           ELSE [size |-> 4,
                 operand |-> IF kind = OPERAND_REGISTER
                             THEN coil_create_reg_operand(Load24(data, offset + 1))
                             ELSE coil_create_imm_operand(Load24(data, offset + 1)),
                 errors |-> <<>>]
      [] kind = OPERAND_BASIC_BLOCK ->
           [size |-> 4, operand |-> coil_create_block_operand("block"), errors |-> <<>>]
      [] kind = OPERAND_FUNCTION ->
           [size |-> 4, operand |-> coil_create_func_operand("function"), errors |-> <<>>]
      [] kind = OPERAND_GLOBAL ->
           [size |-> 4, operand |-> coil_create_global_operand("global"), errors |-> <<>>]
      [] kind = OPERAND_MEMORY ->
           IF offset + 8 > Len(data)
           THEN [size |-> 0, operand |-> NoOperand, errors |-> Corrupt]
           ELSE [size |-> 8,
                 operand |-> coil_create_mem_operand(data[offset + 2],
                                                     Signed32(Load32(data, offset + 2, e)),
                                                     data[offset + 7], data[offset + 8]),
                 errors |-> <<>>]
      [] OTHER -> [size |-> 0, operand |-> NoOperand, errors |-> Corrupt])

\* the operand loop of coil_decode_instruction
RECURSIVE decode_operands(_, _, _, _, _)
decode_operands(data, offset, left, operands, e) ==
  IF left = 0 THEN [ok |-> TRUE, operands |-> operands, errors |-> <<>>]
  ELSE
  Bind(decode_operand(data, offset, e), LAMBDA one :
    IF one.size = 0 THEN [ok |-> FALSE, operands |-> <<>>, errors |-> one.errors]
    ELSE decode_operands(data, offset + one.size, left - 1,
                         Append(operands, one.operand), e))

decoded(status, instr, errors) == [status |-> status, instr |-> instr, errors |-> errors]

coil_decode_instruction(data, e) ==
  IF Len(data) = 0 THEN decoded("null", NoInstruction.instr, <<>>)
  ELSE IF Len(data) < 4 THEN decoded("null", NoInstruction.instr, Corrupt)
  ELSE IF ~coil_is_valid_instruction(data[1], data[3])
  THEN decoded("null", NoInstruction.instr, Corrupt)
  ELSE
  Bind(decode_operands(data, 4, data[3], <<>>, e), LAMBDA loop :
    IF ~loop.ok THEN decoded("null", NoInstruction.instr, loop.errors)
    ELSE decoded("instr",
                 coil_create_instruction(data[1], data[2],
                                         coil_create_reg_operand(data[4]), loop.operands),
                 <<>>))

(***************************************************************************)
(* Specification of the instruction codec: an instruction built with the   *)
(* IR constructors is encoded into a caller's buffer, and the bytes the    *)
(* encoder returned are decoded by both decoders.                          *)
(***************************************************************************)
MaxOperands == 2

IcImmediates == {0, 5, 0 - 1, 8388607, 0 - 8388608}

IcInstructions ==
  { coil_create_binary_op(OPCODE_ADD, coil_create_reg_operand(2), r0, r1),
    coil_create_binary_op(OPCODE_SUB, r1, coil_create_reg_operand(300),
                          coil_create_imm_operand(5)),
    coil_create_load(r0, coil_create_mem_operand(1, 4, 2, 8)),
    coil_create_load(r1, coil_create_global_operand("g")),
    coil_create_instruction(OPCODE_STORE, 1, r0,
                            <<coil_create_mem_operand(1, 0 - 4, 0, 1), r1>>),
    coil_create_branch("ENTRY"),
    coil_create_instruction(OPCODE_CALL, 0, r1, <<coil_create_func_operand("bar")>>),
    coil_create_return(<<>>),
    coil_create_return(<<r1>>),
    coil_create_instruction(OPCODE_NOP, 0, r0, <<>>) }
  \cup { coil_create_instruction(OPCODE_LOAD_I32, 0, r1, <<coil_create_imm_operand(imm)>>) :
           imm \in IcImmediates }

\* what the caller's buffer holds, in every byte, before the encoder runs
FillBytes == {0, 1, 5, 204}

IcBufferSizes == {3, 8, 4 + 4 * MaxOperands}

\* what a freshly allocated operand slot may hold
WildOperands ==
  { coil_create_reg_operand(0), coil_create_mem_operand(1, 4, 2, 8),
    coil_create_block_operand("") }

IcInit ==
  /\ ic_instr \in IcInstructions
  /\ ic_fill \in FillBytes
  /\ endian \in {"little", "big"}
  /\ ic_bytes = <<>> /\ ic_phase = "built" /\ ic_from_binary = <<>> /\ ic_decoded = <<>>
  /\ CodecQuiet /\ SemIdle /\ HcIdle /\ TrIdle /\ OptIdle /\ TyIdle /\ SkIdle /\ AsIdle /\ LxIdle

EncodeInstruction ==
  /\ ic_phase = "built"
  /\ \E size \in IcBufferSizes :
       LET r == coil_instruction_to_binary(ic_instr, [i \in 1..size |-> ic_fill])
       IN IF r.ret < 0
          THEN ic_phase' = "failed" /\ ic_bytes' = <<>>
          ELSE ic_phase' = "encoded" /\ ic_bytes' = SubSeq(r.mem, 1, r.ret)
  /\ UNCHANGED <<ic_instr, ic_fill, ic_from_binary, ic_decoded,
                 codecVars, semVars, hcVars, trVars, optVars, tyVars, skVars, asVars, lxVars>>

FromBinary ==
  /\ ic_phase = "encoded" /\ ic_from_binary = <<>>
  /\ \E wild \in [1..MaxOperands -> WildOperands] :
       ic_from_binary' = <<coil_instruction_from_binary(ic_bytes, wild)>>
  /\ UNCHANGED <<ic_instr, ic_fill, ic_bytes, ic_phase, ic_decoded,
                 codecVars, semVars, hcVars, trVars, optVars, tyVars, skVars, asVars, lxVars>>

DecodeInstruction ==
  /\ ic_phase = "encoded" /\ ic_decoded = <<>>
  /\ ic_decoded' = <<coil_decode_instruction(ic_bytes, endian)>>
  /\ UNCHANGED <<ic_instr, ic_fill, ic_bytes, ic_phase, ic_from_binary,
                 codecVars, semVars, hcVars, trVars, optVars, tyVars, skVars, asVars, lxVars>>

IcNext == EncodeInstruction \/ FromBinary \/ DecodeInstruction

SpecInstr == IcInit /\ [][IcNext]_vars

same_operand(a, b) ==
  /\ a.kind = b.kind
  /\ a.kind = OPERAND_REGISTER => a.reg = b.reg
  /\ a.kind = OPERAND_IMMEDIATE => a.imm = b.imm
  /\ a.kind = OPERAND_MEMORY =>
       a.base = b.base /\ a.offset = b.offset /\ a.index = b.index /\ a.scale = b.scale

same_instruction(instr, result) ==
  /\ result.status = "instr"
  /\ result.instr.opcode = instr.opcode
  /\ result.instr.flags = instr.flags
  /\ result.instr.dest.kind = instr.dest.kind
  /\ Len(result.instr.operands) = Len(instr.operands)
  /\ \A i \in 1..Len(instr.operands) :
       same_operand(instr.operands[i], result.instr.operands[i])

\* C5: when an instruction built with the constructors, whose immediates
\* lie in the signed range of the 3-byte field, has been encoded by
\* coil_instruction_to_binary, both coil_instruction_from_binary and
\* coil_decode_instruction give back an instruction with the same opcode,
\* flags, destination kind, operand count, operand kinds and numeric
\* operand fields.
C5_InstructionRoundTrip ==
  (/\ ic_phase = "encoded" /\ ic_from_binary # <<>> /\ ic_decoded # <<>>
   /\ \A i \in 1..Len(ic_instr.operands) :
        ic_instr.operands[i].kind = OPERAND_IMMEDIATE
          => ic_instr.operands[i].imm \in (0 - 8388608)..8388607)
  => /\ same_instruction(ic_instr, ic_from_binary[1])
     /\ same_instruction(ic_instr, ic_decoded[1])

(***************************************************************************)
(* x86-64 translator (translator.c).  A translation state t holds the      *)
(* native buffer (data, capacity), the translator's reg_mappings, the      *)
(* number of realloc calls that will still succeed (heap), the             *)
(* diagnostics reported so far, whether the build guards the stack         *)
(* (guard) and whether that guard has stopped the process (aborted).       *)
(***************************************************************************)
TrDiag(code) == Diag(code, ERROR_CATEGORY_ASSEMBLER)

reported(t, code) == [t EXCEPT !.errors = Append(t.errors, TrDiag(code))]

step(ok, t) == [ok |-> ok, t |-> t]

\* the doubling loop of ensure_buffer_capacity
RECURSIVE new_capacity(_, _)
new_capacity(capacity, needed) ==
  IF needed > capacity THEN new_capacity(capacity * 2, needed) ELSE capacity

ensure_buffer_capacity(t, additional_size) ==
  IF Len(t.data) + additional_size <= t.capacity THEN step(TRUE, t)
  ELSE IF t.heap = 0 THEN step(FALSE, t)
  ELSE step(TRUE, [t EXCEPT !.heap = t.heap - 1,
                            !.capacity = new_capacity(t.capacity * 2,
                                                      Len(t.data) + additional_size)])

append_to_buffer(t, bytes) ==
  Bind(ensure_buffer_capacity(t, Len(bytes)), LAMBDA grown :
    IF ~grown.ok THEN grown
    ELSE step(TRUE, [grown.t EXCEPT !.data = grown.t.data \o bytes]))

\* if (append_to_buffer(...) != 0) { report_error(ERROR_SYSTEM_MEMORY); return -1; }
emit(t, bytes) ==
  Bind(append_to_buffer(t, bytes), LAMBDA appended :
    IF appended.ok THEN appended
    ELSE step(FALSE, reported(appended.t, ERROR_SYSTEM_MEMORY)))

\* map_register without its search of the existing mappings
map_register_without_lookup(t, vreg) ==
  IF t.heap = 0
  THEN [preg |-> 0 - 1, t |-> reported(t, ERROR_GENERAL_OUT_OF_MEMORY)]
  ELSE
  Bind(IF Len(t.reg_mappings) > 0 THEN (Last(t.reg_mappings).preg + 1) % 16 ELSE 0,
       LAMBDA preg :
    [preg |-> preg,
     t |-> [t EXCEPT !.heap = t.heap - 1,
                     !.reg_mappings = Append(t.reg_mappings,
                                             [vreg |-> vreg, preg |-> preg])]])

\* preg is -1 when the mapping table cannot grow
map_register(t, vreg) ==
  Bind({i \in 1..Len(t.reg_mappings) : t.reg_mappings[i].vreg = vreg}, LAMBDA hits :
    IF hits # {} THEN [preg |-> t.reg_mappings[SetMin(hits)].preg, t |-> t]
    ELSE IF t.heap = 0
    THEN [preg |-> 0 - 1, t |-> reported(t, ERROR_GENERAL_OUT_OF_MEMORY)]
    ELSE
  Bind(IF Len(t.reg_mappings) > 0 THEN (Last(t.reg_mappings).preg + 1) % 16 ELSE 0,
       LAMBDA preg :
    [preg |-> preg,
     t |-> [t EXCEPT !.heap = t.heap - 1,
                     !.reg_mappings = Append(t.reg_mappings,
                                             [vreg |-> vreg, preg |-> preg])]]))

encode_modrm(mod, reg, rm) == (mod % 4) * 64 + (reg % 8) * 8 + (rm % 8)

encode_rex(w, r, x, b) == 64 + w * 8 + r * 4 + x * 2 + b

high(reg) == IF reg > 7 THEN 1 ELSE 0

\* the two appends of translate_add and translate_sub; opcode is 0x01 or 0x29
emit_arithmetic(t, opcode, dest_reg, src1_reg, src2_reg) ==
  Bind(IF dest_reg # src1_reg
       THEN emit(t, <<encode_rex(1, high(dest_reg), 0, high(src1_reg)), 137,
                      encode_modrm(3, src1_reg, dest_reg)>>)
       ELSE step(TRUE, t),
       LAMBDA mov :
    IF ~mov.ok THEN mov
    ELSE emit(mov.t, <<encode_rex(1, high(src2_reg), 0, high(dest_reg)), opcode,
                       encode_modrm(3, src2_reg, dest_reg)>>))

translate_arithmetic(t, instr, opcode) ==
  IF Len(instr.operands) # 2 THEN step(FALSE, reported(t, ERROR_CODEGEN_INVALID_IR))
  ELSE IF \/ instr.dest.kind # OPERAND_REGISTER
          \/ instr.operands[1].kind # OPERAND_REGISTER
          \/ instr.operands[2].kind # OPERAND_REGISTER
  THEN step(FALSE, reported(t, ERROR_CODEGEN_UNSUPPORTED))
  ELSE
  Bind(map_register(t, instr.dest.reg), LAMBDA dest :
  Bind(map_register(dest.t, instr.operands[1].reg), LAMBDA src1 :
  Bind(map_register(src1.t, instr.operands[2].reg), LAMBDA src2 :
    IF dest.preg < 0 \/ src1.preg < 0 \/ src2.preg < 0 THEN step(FALSE, src2.t)
    ELSE emit_arithmetic(src2.t, opcode, dest.preg, src1.preg, src2.preg))))

translate_add(t, instr) == translate_arithmetic(t, instr, 1)

translate_sub(t, instr) == translate_arithmetic(t, instr, 41)

\* (int32_t) imm as a word, for an imm that fits 32 bits
ImmWord(imm) == <<(imm \div 65536) % 65536, imm % 65536>>

\* The store *(int32_t*)(mov_code + 3) writes four bytes into the last three
\* of uint8_t mov_code[6]: its fourth byte lands past the array.  Where the
\* build guards the stack (t.guard) the process is aborted when
\* translate_load_i32 returns; elsewhere the byte is lost.  The append takes
\* sizeof(mov_code) = 6 bytes.
translate_load_i32(t, instr, e) ==
  IF Len(instr.operands) # 1 THEN step(FALSE, reported(t, ERROR_CODEGEN_INVALID_IR))
  ELSE IF instr.dest.kind # OPERAND_REGISTER
  THEN step(FALSE, reported(t, ERROR_CODEGEN_UNSUPPORTED))
  ELSE IF instr.operands[1].kind # OPERAND_IMMEDIATE
  THEN step(FALSE, reported(t, ERROR_CODEGEN_UNSUPPORTED))
  ELSE
  Bind(map_register(t, instr.dest.reg), LAMBDA dest :
    IF dest.preg < 0 THEN step(FALSE, dest.t)
    ELSE
  Bind(emit(dest.t, <<encode_rex(1, 0, 0, high(dest.preg)), 199,
                      encode_modrm(3, 0, dest.preg)>>
                    \o SubSeq(Bytes32(ImmWord(instr.operands[1].imm), e), 1, 3)),
       LAMBDA appended :
    IF t.guard THEN step(FALSE, [appended.t EXCEPT !.aborted = TRUE]) ELSE appended))

translate_ret(t, instr) == emit(t, <<195>>)

coil_translate_instruction(t, instr, e) ==
  CASE instr.opcode = OPCODE_ADD -> translate_add(t, instr)
    [] instr.opcode = OPCODE_SUB -> translate_sub(t, instr)
    [] instr.opcode = OPCODE_LOAD_I32 -> translate_load_i32(t, instr, e)
    [] instr.opcode = OPCODE_RET -> translate_ret(t, instr)
    [] OTHER -> step(FALSE, reported(t, ERROR_CODEGEN_UNSUPPORTED))

\* the instructions of all blocks, in the order the two loops visit them
RECURSIVE instructions_of(_)
instructions_of(blocks) ==
  IF blocks = <<>> THEN <<>>
  ELSE blocks[1].instructions \o instructions_of(Tail(blocks))

RECURSIVE translate_instructions(_, _, _)
translate_instructions(t, instrs, e) ==
  IF instrs = <<>> THEN step(TRUE, t)
  ELSE
  Bind(coil_translate_instruction(t, instrs[1], e), LAMBDA one :
    IF ~one.ok THEN one ELSE translate_instructions(one.t, Tail(instrs), e))

PROLOGUE == <<85, 72, 137, 229>>   \* 55 48 89 E5

EPILOGUE == <<93, 195>>            \* 5D C3

\* the call did not return: the process was aborted
Aborted == 0 - 3

reset_register_mappings(t) == [t EXCEPT !.reg_mappings = <<>>]

failed(t) == [ret |-> IF t.aborted THEN Aborted ELSE 0 - 1, t |-> t]

\* coil_translate_function without its epilogue step
translate_function_without_epilogue(function, t, e) ==
  Bind(emit(reset_register_mappings(t), PROLOGUE), LAMBDA prologue :
    IF ~prologue.ok THEN failed(prologue.t)
    ELSE
  Bind(translate_instructions(prologue.t, instructions_of(function.blocks), e),
       LAMBDA body :
    IF body.ok THEN [ret |-> 0, t |-> body.t] ELSE failed(body.t)))

\* t is the translator and the native buffer as they are before the call
coil_translate_function(function, t, e) ==
  Bind(emit(reset_register_mappings(t), PROLOGUE), LAMBDA prologue :
    IF ~prologue.ok THEN failed(prologue.t)
    ELSE
  Bind(translate_instructions(prologue.t, instructions_of(function.blocks), e),
       LAMBDA body :
    IF ~body.ok THEN failed(body.t)
    ELSE IF Len(body.t.data) = 0 \/ Last(body.t.data) # 195
    THEN Bind(emit(body.t, EPILOGUE), LAMBDA epilogue :
           IF epilogue.ok THEN [ret |-> 0, t |-> epilogue.t] ELSE failed(epilogue.t))
    ELSE [ret |-> 0, t |-> body.t]))

coil_reset_buffer(t) == [t EXCEPT !.data = <<>>]

\* features is what the target has enabled
coil_target_satisfies_requirements(features, required_features) ==
  \A i \in 1..Len(required_features) : required_features[i] \in features

\* the loop of coil_translate_module from function i on
RECURSIVE translate_functions(_, _, _, _)
translate_functions(functions, i, t, e) ==
  IF i > Len(functions) THEN [ret |-> 0, t |-> t]
  ELSE IF functions[i].is_external THEN translate_functions(functions, i + 1, t, e)
  ELSE
  Bind(coil_translate_function(functions[i], t, e), LAMBDA one :
    IF one.ret # 0 THEN one ELSE translate_functions(functions, i + 1, one.t, e))

coil_translate_module(module, required_features, features, t, e) ==
  IF ~coil_target_satisfies_requirements(features, required_features)
  THEN [ret |-> 0 - 1, t |-> reported(coil_reset_buffer(t), ERROR_ASSEMBLER_NO_TARGET)]
  ELSE translate_functions(module.functions, 1, coil_reset_buffer(t), e)

(***************************************************************************)
(* Specification of the translator: coil_translate_function on one         *)
(* function and one native buffer.                                         *)
(***************************************************************************)
MaxInstrs == 2

TrInstructions ==
  { coil_create_return(<<>>),
    coil_create_binary_op(OPCODE_ADD, r0, r0, r1),
    coil_create_binary_op(OPCODE_SUB, r1, r0, r0),
    coil_create_binary_op(OPCODE_ADD, r0, r0, coil_create_imm_operand(1)),
    coil_create_binary_op(OPCODE_MUL, r0, r0, r1),
    coil_create_instruction(OPCODE_LOAD_I32, 0, r0, <<coil_create_imm_operand(5)>>),
    \* 0x00C30000: the last of the six bytes a little-endian host appends is C3
    coil_create_instruction(OPCODE_LOAD_I32, 0, r1,
                            <<coil_create_imm_operand(12779520)>>),
    coil_create_branch("ENTRY") }

\* how many additions on three fresh virtual registers open a wide function
MaxWide == 6

vr(n) == coil_create_reg_operand(n)

\* ADD v(3j), v(3j+1), v(3j+2) for j = 0 .. n-1
fresh_additions(n) ==
  [j \in 1..n |-> coil_create_binary_op(OPCODE_ADD, vr(3 * j - 3), vr(3 * j - 2),
                                        vr(3 * j - 1))]

\* instructions on registers a wide function has used before
WideTails ==
  { coil_create_binary_op(op, vr(d), vr(a), vr(b)) :
      op \in {OPCODE_ADD, OPCODE_SUB}, d \in {0, 8}, a \in {0, 8}, b \in {1, 9} }
  \cup { coil_create_instruction(OPCODE_LOAD_I32, 0, vr(d),
                                 <<coil_create_imm_operand(0 - 2)>>) : d \in {0, 8} }

TrFunctions ==
  { coil_create_function("f", COIL_TYPE_VOID, <<>>, FALSE, 2,
                         <<coil_create_basic_block("ENTRY", body)>> \o more) :
      body \in SeqOf(TrInstructions, MaxInstrs),
      more \in {<<>>, <<coil_create_basic_block("exit", <<coil_create_return(<<>>)>>)>>} }
  \cup { coil_create_function("g", COIL_TYPE_VOID, <<>>, external, 0, <<>>) :
           external \in BOOLEAN }
  \cup { coil_create_function("w", COIL_TYPE_VOID, <<>>, FALSE, 3 * n,
                              <<coil_create_basic_block("ENTRY",
                                                        fresh_additions(n) \o tail)>>) :
           n \in 3..MaxWide, tail \in {<<>>} \cup {<<i>> : i \in WideTails} }

NativeBuffers ==
  { [data |-> <<>>, capacity |-> 1], [data |-> <<>>, capacity |-> 64],
    [data |-> <<144, 195>>, capacity |-> 2] }

\* reg_mappings of a new translator, and as a translation of SUB r1, r0, r0
\* leaves them
StaleMappings == { <<>>, <<[vreg |-> 1, preg |-> 0], [vreg |-> 0, preg |-> 1]>> }

\* modules of one or two functions: ENTRY: RET, ENTRY: BR ENTRY (which the
\* translator does not lower), ENTRY: ADD r0, r0, r1 and an external one
TrModuleFunctions ==
  { coil_create_function("a", COIL_TYPE_VOID, <<>>, FALSE, 0,
                         <<coil_create_basic_block("ENTRY", <<coil_create_return(<<>>)>>)>>),
    coil_create_function("b", COIL_TYPE_VOID, <<>>, FALSE, 0,
                         <<coil_create_basic_block("ENTRY", <<coil_create_branch("ENTRY")>>)>>),
    coil_create_function("c", COIL_TYPE_VOID, <<>>, FALSE, 2,
                         <<coil_create_basic_block(
                             "ENTRY", <<coil_create_binary_op(OPCODE_ADD, r0, r0, r1)>>)>>),
    coil_create_function("x", COIL_TYPE_VOID, <<>>, TRUE, 0, <<>>) }

TrModules ==
  { coil_create_module("m", <<>>, <<>>, functions) :
      functions \in {<<>>} \cup { <<f>> : f \in TrModuleFunctions }
                    \cup { <<f, g>> : f \in TrModuleFunctions, g \in TrModuleFunctions } }

\* the features the default target enables
DefaultFeatures == {"sse", "sse2"}

RequiredFeatures == { <<>>, <<"sse">>, <<"sse", "avx">> }

TrInit ==
  /\ \/ tr_function \in TrFunctions /\ tr_module = NoModule
     \/ tr_function = NoFunction /\ tr_module \in TrModules
  /\ tr_buffer \in NativeBuffers
  /\ tr_heap \in {0, 1, 8, 64}
  /\ tr_mappings \in StaleMappings
  /\ tr_guard \in BOOLEAN
  /\ endian \in {"little", "big"}
  /\ tr_emitted = <<>> /\ tr_ret = Pending /\ tr_errors = <<>>
  /\ CodecQuiet /\ SemIdle /\ HcIdle /\ IcIdle /\ OptIdle /\ TyIdle /\ SkIdle /\ AsIdle /\ LxIdle

translator_state(native, mappings, heap, guard) ==
  [data |-> native.data, capacity |-> native.capacity, reg_mappings |-> mappings,
   heap |-> heap, errors |-> <<>>, guard |-> guard, aborted |-> FALSE]

TranslateFunction ==
  /\ tr_ret = Pending /\ tr_module.isnull
  /\ LET r == coil_translate_function(
                tr_function,
                translator_state(tr_buffer, tr_mappings, tr_heap, tr_guard), endian)
     IN /\ tr_buffer' = [data |-> r.t.data, capacity |-> r.t.capacity]
        /\ tr_heap' = r.t.heap
        /\ tr_emitted' = SubSeq(r.t.data, Len(tr_buffer.data) + 1, Len(r.t.data))
        /\ tr_ret' = r.ret
        /\ tr_errors' = r.t.errors
        /\ tr_mappings' = r.t.reg_mappings
  /\ UNCHANGED <<tr_function, tr_module, tr_guard,
                 codecVars, semVars, hcVars, icVars, optVars, tyVars, skVars, asVars, lxVars>>

TranslateModule ==
  /\ tr_ret = Pending /\ ~tr_module.isnull
  /\ \E required_features \in RequiredFeatures :
       LET r == coil_translate_module(
                  tr_module, required_features, DefaultFeatures,
                  translator_state(tr_buffer, tr_mappings, tr_heap, tr_guard), endian)
       IN /\ tr_buffer' = [data |-> r.t.data, capacity |-> r.t.capacity]
          /\ tr_heap' = r.t.heap
          /\ tr_emitted' = r.t.data
          /\ tr_ret' = r.ret
          /\ tr_errors' = r.t.errors
          /\ tr_mappings' = r.t.reg_mappings
  /\ UNCHANGED <<tr_function, tr_module, tr_guard,
                 codecVars, semVars, hcVars, icVars, optVars, tyVars, skVars, asVars, lxVars>>

TrNext == TranslateFunction \/ TranslateModule

SpecTranslate == TrInit /\ [][TrNext]_vars

passed_analysis(function) ==
  hoil_analyze_module(coil_create_module("m", <<>>, <<>>, <<function>>)).ret = 0

single_ret(function) ==
  function.blocks = <<coil_create_basic_block("ENTRY", <<coil_create_return(<<>>)>>)>>

framed(emitted) ==
  /\ Len(emitted) >= Len(PROLOGUE)
  /\ SubSeq(emitted, 1, Len(PROLOGUE)) = PROLOGUE
  /\ Last(emitted) = 195

\* C4 as stated: for every non-external function that passed semantic
\* analysis, the bytes coil_translate_function emits begin with 55 48 89 E5
\* and end with C3, and for the single block ENTRY with a single RET they
\* are at most 8 bytes.  Calls in which a realloc failed are left aside.
C4_EveryAnalyzedFunctionFramed ==
  (/\ tr_ret # Pending /\ ~tr_function.is_external /\ passed_analysis(tr_function)
   /\ tr_heap > 0)
  => /\ framed(tr_emitted)
     /\ single_ret(tr_function) => Len(tr_emitted) <= 8

\* C4: for every non-external function on which coil_translate_function
\* returns 0, the bytes it emitted begin with 55 48 89 E5 and end with C3;
\* for the single block ENTRY with a single RET they are 55 48 89 E5 C3,
\* which is at most 8 bytes.
C4_TranslatedFunctionFramed ==
  (tr_ret = 0 /\ ~tr_function.is_external)
  => /\ framed(tr_emitted)
     /\ single_ret(tr_function) => tr_emitted = PROLOGUE \o <<195>> /\ Len(tr_emitted) <= 8

C4_Witness ==
  /\ tr_ret = 0 /\ ~tr_function.is_external /\ passed_analysis(tr_function)
  /\ single_ret(tr_function) /\ tr_emitted = <<85, 72, 137, 229, 195>>

\* the physical register the mapping table holds for a virtual register
preg_of(mappings, vreg) ==
  mappings[SetMin({i \in 1..Len(mappings) : mappings[i].vreg = vreg})].preg

load_reg_imm(instr) ==
  /\ instr.opcode = OPCODE_LOAD_I32 /\ instr.dest.kind = OPERAND_REGISTER
  /\ Len(instr.operands) = 1 /\ instr.operands[1].kind = OPERAND_IMMEDIATE

first_instruction(function) == function.blocks[1].instructions[1]

opens_with_load(function) ==
  /\ Len(function.blocks) > 0 /\ Len(function.blocks[1].instructions) > 0
  /\ load_reg_imm(first_instruction(function))

no_allocation_failed ==
  \A i \in 1..Len(tr_errors) :
    tr_errors[i].code \notin {ERROR_SYSTEM_MEMORY, ERROR_GENERAL_OUT_OF_MEMORY}

\* C12: when a function opens with LOAD_I32 of an immediate into a register
\* and no allocation failed, the call returns and the seven bytes after the
\* prologue are REX.W (with REX.B for R8..R15), C7, ModRM with mod 11, reg 0
\* and rm the low bits of the destination, and the four bytes of the
\* immediate in little-endian order.
C12_LoadI32SevenBytes ==
  (tr_ret # Pending /\ opens_with_load(tr_function) /\ no_allocation_failed)
  => /\ tr_ret # Aborted
     /\ Len(tr_emitted) >= Len(PROLOGUE) + 7
     /\ SubSeq(tr_emitted, Len(PROLOGUE) + 1, Len(PROLOGUE) + 7)
          = <<72 + high(preg_of(tr_mappings, first_instruction(tr_function).dest.reg)),
              199,
              192 + (preg_of(tr_mappings, first_instruction(tr_function).dest.reg) % 8)>>
            \o Bytes32(ImmWord(first_instruction(tr_function).operands[1].imm), "little")

register_arithmetic(instr) ==
  /\ instr.opcode \in {OPCODE_ADD, OPCODE_SUB} /\ instr.dest.kind = OPERAND_REGISTER
  /\ Len(instr.operands) = 2
  /\ instr.operands[1].kind = OPERAND_REGISTER /\ instr.operands[2].kind = OPERAND_REGISTER

all_arithmetic(function) ==
  /\ instructions_of(function.blocks) # <<>>
  /\ \A i \in 1..Len(instructions_of(function.blocks)) :
       register_arithmetic(instructions_of(function.blocks)[i])

\* the physical registers translate_add and translate_sub place in ModRM.reg
\* and ModRM.rm of each machine instruction: src1 and dest for the MOV that
\* is emitted when they differ, src2 and dest for the ADD or SUB
RECURSIVE placed(_, _)
placed(mappings, instrs) ==
  IF instrs = <<>> THEN <<>>
  ELSE (IF preg_of(mappings, instrs[1].dest.reg)
            # preg_of(mappings, instrs[1].operands[1].reg)
        THEN <<[reg |-> preg_of(mappings, instrs[1].operands[1].reg),
                rm |-> preg_of(mappings, instrs[1].dest.reg)]>>
        ELSE <<>>)
       \o <<[reg |-> preg_of(mappings, instrs[1].operands[2].reg),
             rm |-> preg_of(mappings, instrs[1].dest.reg)]>>
       \o placed(mappings, Tail(instrs))

rex_r(rex) == (rex \div 4) % 2

rex_b(rex) == rex % 2

modrm_reg(modrm) == (modrm \div 8) % 8

modrm_rm(modrm) == modrm % 8

\* the k-th three-byte machine instruction after the prologue
unit(emitted, k) == SubSeq(emitted, Len(PROLOGUE) + 3 * k - 2, Len(PROLOGUE) + 3 * k)

\* C13: when a function of ADD and SUB instructions on registers has been
\* translated, in every machine instruction emitted for it REX.R is the high
\* bit of the physical register whose low bits are in ModRM.reg and REX.B is
\* the high bit of the physical register whose low bits are in ModRM.rm.
C13_RexMatchesModRM ==
  (tr_ret = 0 /\ all_arithmetic(tr_function))
  => LET regs == placed(tr_mappings, instructions_of(tr_function.blocks))
     IN /\ Len(tr_emitted) >= Len(PROLOGUE) + 3 * Len(regs)
        /\ \A k \in 1..Len(regs) :
             /\ modrm_reg(unit(tr_emitted, k)[3]) = regs[k].reg % 8
             /\ modrm_rm(unit(tr_emitted, k)[3]) = regs[k].rm % 8
             /\ rex_r(unit(tr_emitted, k)[1]) = high(regs[k].reg)
             /\ rex_b(unit(tr_emitted, k)[1]) = high(regs[k].rm)

\* the virtual registers an instruction hands to map_register, in call order
mapped_registers(instr) ==
  IF register_arithmetic(instr)
  THEN <<instr.dest.reg, instr.operands[1].reg, instr.operands[2].reg>>
  ELSE IF load_reg_imm(instr) THEN <<instr.dest.reg>>
  ELSE <<>>

RECURSIVE register_uses(_)
register_uses(instrs) ==
  IF instrs = <<>> THEN <<>>
  ELSE mapped_registers(instrs[1]) \o register_uses(Tail(instrs))

\* a sequence without its repetitions, in the order of first occurrence
RECURSIVE first_occurrences(_, _)
first_occurrences(seq, seen) ==
  IF seq = <<>> THEN <<>>
  ELSE IF seq[1] \in seen THEN first_occurrences(Tail(seq), seen)
  ELSE <<seq[1]>> \o first_occurrences(Tail(seq), seen \cup {seq[1]})

distinct_registers(function) ==
  first_occurrences(register_uses(instructions_of(function.blocks)), {})

round_robin(function) ==
  [k \in 1..Len(distinct_registers(function)) |->
     [vreg |-> distinct_registers(function)[k], preg |-> (k - 1) % 16]]

translated_functions(module) ==
  {i \in 1..Len(module.functions) : ~module.functions[i].is_external}

last_translated(module) ==
  CHOOSE i \in translated_functions(module) :
    \A j \in translated_functions(module) : j <= i

\* C14: when coil_translate_function has returned 0, the translator's
\* mappings are exactly those of this function: the k-th distinct virtual
\* register it uses (k counted from 0) is mapped to physical register
\* k mod 16, RAX first, whatever mappings an earlier translation had left;
\* in a function of ADD and SUB on registers every use of a virtual
\* register is encoded with the low bits of that one physical register; and
\* when coil_translate_module has returned 0 the mappings are those of the
\* last function it translated alone.
C14_RoundRobinMapping ==
  /\ (tr_ret = 0 /\ tr_module.isnull)
     => /\ tr_mappings = round_robin(tr_function)
        /\ all_arithmetic(tr_function)
           => LET regs == placed(tr_mappings, instructions_of(tr_function.blocks))
              IN \A k \in 1..Len(regs) :
                   /\ modrm_reg(unit(tr_emitted, k)[3]) = regs[k].reg % 8
                   /\ modrm_rm(unit(tr_emitted, k)[3]) = regs[k].rm % 8
  /\ (tr_ret = 0 /\ ~tr_module.isnull /\ translated_functions(tr_module) # {})
     => tr_mappings
          = round_robin(tr_module.functions[last_translated(tr_module)])

\* a function of 18 distinct virtual registers whose last instruction uses
\* v8 and v0 again has been translated: v16 shares RAX with v0
C14_Witness ==
  /\ tr_ret = 0 /\ Len(tr_mappings) = 18
  /\ tr_mappings[1] = [vreg |-> 0, preg |-> 0]
  /\ tr_mappings[9] = [vreg |-> 8, preg |-> 8]
  /\ tr_mappings[17] = [vreg |-> 16, preg |-> 0]
  /\ Len(instructions_of(tr_function.blocks)) = 7
  /\ instructions_of(tr_function.blocks)[7].dest.reg = 8

(***************************************************************************)
(* Optimizer (optimizer.c).  An optimizer state o holds the level, the     *)
(* target's register count and the diagnostics reported so far.            *)
(***************************************************************************)
\* the literal 0x89 that peephole_optimize takes for a MOV
PEEPHOLE_MOV == 137

\* next->opcode = 0xF1; next->operand_count = 0;
replaced_by_nop(instr) == [instr EXCEPT !.opcode = OPCODE_NOP, !.operands = <<>>]

\* Pattern: MOV r1, r2; MOV r2, r1.  The instructions are read as having an
\* operand 0.
swapped_moves(curr, next) ==
  /\ curr.opcode = PEEPHOLE_MOV /\ next.opcode = PEEPHOLE_MOV
  /\ curr.dest.kind = OPERAND_REGISTER /\ curr.operands[1].kind = OPERAND_REGISTER
  /\ next.dest.kind = OPERAND_REGISTER /\ next.operands[1].kind = OPERAND_REGISTER
  /\ curr.dest.reg = next.operands[1].reg /\ curr.operands[1].reg = next.dest.reg

\* a pattern that takes every instruction
any_instruction(curr) == TRUE

\* Pattern: ADD r1, r1, 0
add_of_zero(curr) ==
  /\ curr.opcode = OPCODE_ADD /\ Len(curr.operands) = 2
  /\ curr.operands[2].kind = OPERAND_IMMEDIATE /\ curr.operands[2].imm = 0
  /\ curr.dest.kind = OPERAND_REGISTER /\ curr.operands[1].kind = OPERAND_REGISTER
  /\ curr.dest.reg = curr.operands[1].reg

\* one round of the loop: curr is instrs[i], next is instrs[i + 1]
peephole_round(instrs, i) ==
  Bind(IF swapped_moves(instrs[i], instrs[i + 1])
       THEN [instrs EXCEPT ![i + 1] = replaced_by_nop(instrs[i + 1])]
       ELSE instrs,
       LAMBDA moved :
    IF add_of_zero(moved[i]) THEN [moved EXCEPT ![i] = replaced_by_nop(moved[i])]
    ELSE moved)

\* for (i = 0; i < count - 1; i++), from round i on
RECURSIVE peephole_rounds(_, _)
peephole_rounds(instrs, i) ==
  IF i > Len(instrs) - 1 THEN instrs
  ELSE peephole_rounds(peephole_round(instrs, i), i + 1)

peephole_optimize(instrs) ==
  IF Len(instrs) < 2 THEN instrs ELSE peephole_rounds(instrs, 1)

\* returns the instruction it was given at every level
coil_optimize_instruction(o, instr) == instr

\* always returns 0 for a block that exists
coil_optimize_basic_block(o, block) ==
  IF o.level = OPT_LEVEL_NONE THEN block
  ELSE [block EXCEPT !.instructions =
          [i \in 1..Len(block.instructions) |->
             coil_optimize_instruction(o, peephole_optimize(block.instructions)[i])]]

opt_reported(o, code) ==
  [o EXCEPT !.errors = Append(o.errors, Diag(code, ERROR_CATEGORY_ASSEMBLER))]

\* optimize_register_allocation refusing a function that uses every register
register_allocation_off_by_one(o, function) ==
  IF function.register_count >= o.registers
  THEN [ret |-> 0 - 1, o |-> opt_reported(o, ERROR_ASSEMBLER_BAD_MAPPING)]
  ELSE [ret |-> 0, o |-> o]

\* the target of an optimizer is never NULL, so its resources exist
optimize_register_allocation(o, function) ==
  IF function.register_count > o.registers
  THEN [ret |-> 0 - 1, o |-> opt_reported(o, ERROR_ASSEMBLER_BAD_MAPPING)]
  ELSE [ret |-> 0, o |-> o]

coil_optimize_function(o, function) ==
  IF o.level = OPT_LEVEL_NONE THEN [ret |-> 0, o |-> o, function |-> function]
  ELSE
  Bind([function EXCEPT !.blocks =
          [i \in 1..Len(function.blocks) |-> coil_optimize_basic_block(o, function.blocks[i])]],
       LAMBDA optimized :
    IF o.level >= OPT_LEVEL_NORMAL
    THEN Bind(optimize_register_allocation(o, optimized), LAMBDA allocation :
           [ret |-> allocation.ret, o |-> allocation.o, function |-> optimized])
    ELSE [ret |-> 0, o |-> o, function |-> optimized])

\* the loop of coil_optimize_module from function i on
RECURSIVE optimize_functions(_, _, _)
optimize_functions(o, functions, i) ==
  IF i > Len(functions) THEN [ret |-> 0, o |-> o, functions |-> functions]
  ELSE IF functions[i].is_external THEN optimize_functions(o, functions, i + 1)
  ELSE
  Bind(coil_optimize_function(o, functions[i]), LAMBDA one :
    IF one.ret # 0
    THEN [ret |-> 0 - 1, o |-> one.o,
          functions |-> [functions EXCEPT ![i] = one.function]]
    ELSE optimize_functions(one.o, [functions EXCEPT ![i] = one.function], i + 1))

coil_optimize_module(o, module) ==
  IF o.level = OPT_LEVEL_NONE THEN [ret |-> 0, o |-> o, module |-> module]
  ELSE
  Bind(optimize_functions(o, module.functions, 1), LAMBDA all :
    [ret |-> all.ret, o |-> all.o, module |-> [module EXCEPT !.functions = all.functions]])

(***************************************************************************)
(* Specification of the optimizer: coil_set_opt_level on a new optimizer,  *)
(* then one call of coil_optimize_module, coil_optimize_function or        *)
(* coil_optimize_basic_block.                                              *)
(***************************************************************************)
MaxBlockLen == 3

add_zero == coil_create_binary_op(OPCODE_ADD, r0, r0, coil_create_imm_operand(0))

OptInstructions ==
  { add_zero,
    coil_create_binary_op(OPCODE_ADD, r0, r1, coil_create_imm_operand(0)),
    coil_create_instruction(PEEPHOLE_MOV, 0, r0, <<r1>>),
    coil_create_instruction(PEEPHOLE_MOV, 0, r1, <<r0>>),
    coil_create_branch("ENTRY"),
    coil_create_return(<<>>) }

\* f uses two virtual registers, g uses seventeen
OptFunctions ==
  { coil_create_function("f", COIL_TYPE_VOID, <<>>, FALSE, 2,
                         <<coil_create_basic_block("ENTRY", body)>> \o more) :
      body \in SeqOf(OptInstructions, MaxBlockLen),
      more \in {<<>>,
                <<coil_create_basic_block("exit", <<add_zero, coil_create_return(<<>>)>>)>>} }

OptNeighbours ==
  { coil_create_function("g", COIL_TYPE_VOID, <<>>, external, 17,
                         <<coil_create_basic_block("ENTRY",
                                                   <<add_zero, coil_create_return(<<>>)>>)>>) :
      external \in BOOLEAN }

OptModules ==
  { coil_create_module("m", <<>>, <<>>, functions) :
      functions \in { <<f>> : f \in OptFunctions }
                    \cup { <<f, g>> : f \in OptFunctions, g \in OptNeighbours }
                    \cup { <<g, f>> : f \in OptFunctions, g \in OptNeighbours } }

OptInit ==
  /\ opt_module \in OptModules /\ opt_before = opt_module
  /\ opt_level = OPT_LEVEL_NONE
  /\ opt_registers \in {1, 2, 16}
  /\ opt_call = NoCall /\ opt_ret = Pending /\ opt_errors = <<>>
  /\ CodecIdle /\ SemIdle /\ HcIdle /\ IcIdle /\ TrIdle /\ TyIdle /\ SkIdle /\ AsIdle /\ LxIdle

optimizer_state == [level |-> opt_level, registers |-> opt_registers, errors |-> opt_errors]

\* levels above OPT_LEVEL_AGGRESSIVE are refused
SetOptLevel ==
  /\ opt_ret = Pending
  /\ \E level \in OPT_LEVEL_NONE..(OPT_LEVEL_AGGRESSIVE + 1) :
       opt_level' = IF level > OPT_LEVEL_AGGRESSIVE THEN opt_level ELSE level
  /\ UNCHANGED <<opt_module, opt_before, opt_registers, opt_call, opt_ret, opt_errors,
                 codecVars, semVars, hcVars, icVars, trVars, tyVars, skVars, asVars, lxVars>>

OptimizeModule ==
  /\ opt_ret = Pending
  /\ LET r == coil_optimize_module(optimizer_state, opt_module)
     IN /\ opt_module' = r.module
        /\ opt_ret' = r.ret
        /\ opt_errors' = r.o.errors
  /\ opt_call' = [op |-> "module", f |-> 0, b |-> 0]
  /\ UNCHANGED <<opt_before, opt_level, opt_registers,
                 codecVars, semVars, hcVars, icVars, trVars, tyVars, skVars, asVars, lxVars>>

OptimizeFunction ==
  /\ opt_ret = Pending
  /\ \E f \in 1..Len(opt_module.functions) :
       LET r == coil_optimize_function(optimizer_state, opt_module.functions[f])
       IN /\ opt_module' = [opt_module EXCEPT !.functions[f] = r.function]
          /\ opt_ret' = r.ret
          /\ opt_errors' = r.o.errors
          /\ opt_call' = [op |-> "function", f |-> f, b |-> 0]
  /\ UNCHANGED <<opt_before, opt_level, opt_registers,
                 codecVars, semVars, hcVars, icVars, trVars, tyVars, skVars, asVars, lxVars>>

OptimizeBasicBlock ==
  /\ opt_ret = Pending
  /\ \E f \in 1..Len(opt_module.functions) :
       \E b \in 1..Len(opt_module.functions[f].blocks) :
         /\ opt_module' =
              [opt_module EXCEPT !.functions[f].blocks[b] =
                 coil_optimize_basic_block(optimizer_state,
                                           opt_module.functions[f].blocks[b])]
         /\ opt_call' = [op |-> "block", f |-> f, b |-> b]
  /\ opt_ret' = 0
  /\ UNCHANGED <<opt_before, opt_level, opt_registers, opt_errors,
                 codecVars, semVars, hcVars, icVars, trVars, tyVars, skVars, asVars, lxVars>>

OptNext == SetOptLevel \/ OptimizeModule \/ OptimizeFunction \/ OptimizeBasicBlock

SpecOptimize == OptInit /\ [][OptNext]_vars

is_terminator(instr) == instr.opcode \in {OPCODE_BR, OPCODE_SWITCH, OPCODE_RET}

terminators(block) ==
  Cardinality({i \in 1..Len(block.instructions) : is_terminator(block.instructions[i])})

same_shape(before, after) ==
  /\ after.name = before.name
  /\ Len(after.blocks) = Len(before.blocks)
  /\ \A b \in 1..Len(before.blocks) :
       /\ after.blocks[b].name = before.blocks[b].name
       /\ terminators(after.blocks[b]) = terminators(before.blocks[b])
       /\ Len(after.blocks[b].instructions) = Len(before.blocks[b].instructions)
       /\ \A i \in 1..Len(before.blocks[b].instructions) :
            \/ after.blocks[b].instructions[i] = before.blocks[b].instructions[i]
            \/ after.blocks[b].instructions[i].opcode = OPCODE_NOP

\* C11: whatever the level and whichever entry point of the optimizer was
\* called, every function of the module keeps its blocks, their names and
\* order, and in every block the number of BR, SWITCH and RET instructions
\* and the number of instructions; an instruction is either what it was or
\* a NOP.
C11_OptimizerKeepsShape ==
  /\ Len(opt_module.functions) = Len(opt_before.functions)
  /\ \A f \in 1..Len(opt_before.functions) :
       same_shape(opt_before.functions[f], opt_module.functions[f])

\* an optimization rewrote an instruction of a block that holds a terminator
C11_Witness ==
  /\ opt_ret = 0 /\ opt_level = OPT_LEVEL_AGGRESSIVE /\ opt_call.op = "module"
  /\ \E b \in 1..Len(opt_module.functions[1].blocks) :
       /\ terminators(opt_module.functions[1].blocks[b]) > 0
       /\ opt_module.functions[1].blocks[b] # opt_before.functions[1].blocks[b]

called_function == opt_before.functions[opt_call.f]

\* C16: coil_optimize_function at level normal or aggressive returns -1
\* with the single diagnostic ERROR_ASSEMBLER_BAD_MAPPING when the
\* function's register_count exceeds the target's register count, and
\* returns 0 without a diagnostic when it does not; at level none or basic
\* no entry point of the optimizer reports ERROR_ASSEMBLER_BAD_MAPPING.
C16_BadMappingIffTooManyRegisters ==
  /\ (opt_call.op = "function" /\ opt_level >= OPT_LEVEL_NORMAL)
     => IF called_function.register_count > opt_registers
        THEN /\ opt_ret = 0 - 1
             /\ opt_errors = <<Diag(ERROR_ASSEMBLER_BAD_MAPPING, ERROR_CATEGORY_ASSEMBLER)>>
        ELSE opt_ret = 0 /\ opt_errors = <<>>
  /\ (opt_ret # Pending /\ opt_level < OPT_LEVEL_NORMAL)
     => ERROR_ASSEMBLER_BAD_MAPPING \notin Codes(opt_errors)

\* a function that uses exactly the target's registers was accepted
C16_Witness ==
  /\ opt_call.op = "function" /\ opt_level = OPT_LEVEL_NORMAL /\ opt_ret = 0
  /\ called_function.register_count = opt_registers

called_block == opt_module.functions[opt_call.f].blocks[opt_call.b]

\* C17: after coil_optimize_basic_block at level basic or higher, no
\* instruction of the block, at any position and for any block length, is
\* an ADD whose destination is its first source register and whose second
\* source is the immediate 0.
C17_NoAddOfZeroLeft ==
  (opt_call.op = "block" /\ opt_level >= OPT_LEVEL_BASIC)
  => \A i \in 1..Len(called_block.instructions) :
       ~add_of_zero(called_block.instructions[i])

occurs_in(part, whole) ==
  \E i \in 0..(Len(whole) - Len(part)) : SubSeq(whole, i + 1, i + Len(part)) = part

\* what coil_translate_function gives for the function alone, with memory
alone(function) ==
  coil_translate_function(
    function, translator_state([data |-> <<>>, capacity |-> 64], <<>>, 64, tr_guard), endian)

level_set == [level |-> opt_level, registers |-> opt_registers, errors |-> <<>>]

\* C15: after coil_translate_module on a module whose requirements the
\* target satisfies, the buffer holds the code of every non-external
\* function that coil_translate_function translates, also when another
\* function of the module failed; and after coil_optimize_module every
\* non-external function is as coil_optimize_function leaves it, also when
\* another function of the module failed.
C15_FailureAbortsOneFunction ==
  /\ (/\ ~tr_module.isnull /\ tr_ret # Pending /\ no_allocation_failed
      /\ ERROR_ASSEMBLER_NO_TARGET \notin Codes(tr_errors))
     => \A i \in translated_functions(tr_module) :
          alone(tr_module.functions[i]).ret = 0
            => occurs_in(alone(tr_module.functions[i]).t.data, tr_emitted)
  /\ (opt_call.op = "module")
     => \A f \in 1..Len(opt_before.functions) :
          ~opt_before.functions[f].is_external
            => opt_module.functions[f]
                 = coil_optimize_function(level_set, opt_before.functions[f]).function

(***************************************************************************)
(* Type system (type_system.c).  A registry is the sequence of its         *)
(* entries; an entry pairs a type code with the struct_type_t computed for *)
(* it.                                                                     *)
(***************************************************************************)
TYPE_CATEGORY_VOID == 0
TYPE_CATEGORY_BOOLEAN == 1
TYPE_CATEGORY_INTEGER == 2

coil_get_type_category(type) == type.category

coil_get_type_width(type) == type.width

coil_get_type_attributes(type) == type.attributes

\* (coil_type_t)attributes: a code whose upper twenty bits are zero
code_of_attributes(attributes) == coil_create_type(0, 0, 0, attributes)

coil_create_vector_type(element_type, element_count) ==
  coil_create_type(TYPE_CATEGORY_VECTOR, element_count, 0, element_type.attributes)

coil_create_array_type(element_type, element_count) ==
  coil_create_type(TYPE_CATEGORY_ARRAY, IF element_count > 255 THEN 0 ELSE element_count,
                   0, element_type.attributes)

coil_get_pointer_base_type(type) ==
  IF coil_get_type_category(type) # TYPE_CATEGORY_POINTER THEN COIL_TYPE_VOID
  ELSE code_of_attributes(coil_get_type_attributes(type))

\* coil_types_compatible without its special case for an integer and a pointer
RECURSIVE compatible_within_category(_, _)
compatible_within_category(type1, type2) ==
  IF type1 = type2 THEN TRUE
  ELSE IF coil_get_type_category(type1) # coil_get_type_category(type2) THEN FALSE
  ELSE CASE coil_get_type_category(type1) = TYPE_CATEGORY_INTEGER -> TRUE
         [] coil_get_type_category(type1) = TYPE_CATEGORY_FLOAT -> TRUE
         [] coil_get_type_category(type1) = TYPE_CATEGORY_POINTER ->
              IF \/ coil_get_pointer_base_type(type1) = COIL_TYPE_VOID
                 \/ coil_get_pointer_base_type(type2) = COIL_TYPE_VOID
              THEN TRUE
              ELSE compatible_within_category(coil_get_pointer_base_type(type1),
                                              coil_get_pointer_base_type(type2))
         [] coil_get_type_category(type1) = TYPE_CATEGORY_VECTOR ->
              IF coil_get_type_width(type1) # coil_get_type_width(type2) THEN FALSE
              ELSE compatible_within_category(coil_get_element_type(type1),
                                              coil_get_element_type(type2))
         [] OTHER -> FALSE

\* the registry argument is only handed on to the recursive calls
RECURSIVE coil_types_compatible(_, _)
coil_types_compatible(type1, type2) ==
  IF type1 = type2 THEN TRUE
  ELSE IF coil_get_type_category(type1) # coil_get_type_category(type2)
  THEN \/ /\ coil_get_type_category(type1) = TYPE_CATEGORY_INTEGER
          /\ coil_get_type_category(type2) = TYPE_CATEGORY_POINTER
       \/ /\ coil_get_type_category(type1) = TYPE_CATEGORY_POINTER
          /\ coil_get_type_category(type2) = TYPE_CATEGORY_INTEGER
  ELSE CASE coil_get_type_category(type1) = TYPE_CATEGORY_INTEGER -> TRUE
         [] coil_get_type_category(type1) = TYPE_CATEGORY_FLOAT -> TRUE
         [] coil_get_type_category(type1) = TYPE_CATEGORY_POINTER ->
              IF \/ coil_get_pointer_base_type(type1) = COIL_TYPE_VOID
                 \/ coil_get_pointer_base_type(type2) = COIL_TYPE_VOID
              THEN TRUE
              ELSE coil_types_compatible(coil_get_pointer_base_type(type1),
                                         coil_get_pointer_base_type(type2))
         [] coil_get_type_category(type1) = TYPE_CATEGORY_VECTOR ->
              IF coil_get_type_width(type1) # coil_get_type_width(type2) THEN FALSE
              ELSE coil_types_compatible(coil_get_element_type(type1),
                                         coil_get_element_type(type2))
         [] OTHER -> FALSE

\* <<>> stands for NULL
coil_get_struct_info(registry, type) ==
  IF coil_get_type_category(type) # TYPE_CATEGORY_STRUCT THEN <<>>
  ELSE Bind(find_type_info(registry.types, type), LAMBDA info :
         IF info = <<>> THEN <<>> ELSE <<info[1].struct_info>>)

RECURSIVE coil_get_type_size(_, _)
coil_get_type_size(registry, type) ==
  CASE coil_get_type_category(type) = TYPE_CATEGORY_VOID -> 0
    [] coil_get_type_category(type) = TYPE_CATEGORY_BOOLEAN -> 1
    [] coil_get_type_category(type) \in {TYPE_CATEGORY_INTEGER, TYPE_CATEGORY_FLOAT} ->
         coil_get_type_width(type) \div 8
    [] coil_get_type_category(type) = TYPE_CATEGORY_POINTER -> 8
    [] coil_get_type_category(type) \in {TYPE_CATEGORY_VECTOR, TYPE_CATEGORY_ARRAY} ->
         coil_get_type_width(type)
           * coil_get_type_size(registry, code_of_attributes(coil_get_type_attributes(type)))
    [] coil_get_type_category(type) = TYPE_CATEGORY_STRUCT ->
         Bind(coil_get_struct_info(registry, type), LAMBDA struct_info :
           IF struct_info # <<>> THEN struct_info[1].size ELSE 0)
    [] OTHER -> 0

RECURSIVE coil_get_type_alignment(_, _)
coil_get_type_alignment(registry, type) ==
  CASE coil_get_type_category(type) = TYPE_CATEGORY_VOID -> 1
    [] coil_get_type_category(type) = TYPE_CATEGORY_BOOLEAN -> 1
    [] coil_get_type_category(type) \in {TYPE_CATEGORY_INTEGER, TYPE_CATEGORY_FLOAT} ->
         coil_get_type_width(type) \div 8
    [] coil_get_type_category(type) = TYPE_CATEGORY_POINTER -> 8
    [] coil_get_type_category(type) \in {TYPE_CATEGORY_VECTOR, TYPE_CATEGORY_ARRAY} ->
         coil_get_type_alignment(registry, code_of_attributes(coil_get_type_attributes(type)))
    [] coil_get_type_category(type) = TYPE_CATEGORY_STRUCT ->
         Bind(coil_get_struct_info(registry, type), LAMBDA struct_info :
           IF struct_info # <<>> THEN struct_info[1].alignment ELSE 1)
    [] OTHER -> 1

RECURSIVE BitAnd(_, _)
BitAnd(a, b) ==
  IF a = 0 \/ b = 0 THEN 0
  ELSE (a % 2) * (b % 2) + 2 * BitAnd(a \div 2, b \div 2)

\* (offset + alignment - 1) & ~(alignment - 1) on uint32_t, for small
\* operands: with alignment 0 the mask ~(alignment - 1) is 0
aligned(offset, alignment) ==
  IF alignment = 0 THEN 0
  ELSE (offset + alignment - 1) - BitAnd(offset + alignment - 1, alignment - 1)

\* the layout loop from element i on; layout holds elements, offset and
\* max_alignment
RECURSIVE layout_elements(_, _, _, _)
layout_elements(registry, elements, i, layout) ==
  IF i > Len(elements) THEN layout
  ELSE
  Bind(coil_get_type_alignment(registry, elements[i].type), LAMBDA field_alignment :
  Bind(aligned(layout.offset, field_alignment), LAMBDA offset :
    layout_elements(
      registry, elements, i + 1,
      [elements |-> Append(layout.elements,
                           [name |-> elements[i].name, type |-> elements[i].type,
                            offset |-> offset]),
       offset |-> offset + coil_get_type_size(registry, elements[i].type),
       max_alignment |-> Max(field_alignment, layout.max_alignment)])))

\* registry->types grows by doubling; heap counts the allocations that will
\* still succeed
type_registry_add(registry, heap, info) ==
  IF Len(registry.types) >= registry.capacity /\ heap = 0
  THEN [index |-> 0 - 1, registry |-> registry, heap |-> heap]
  ELSE [index |-> Len(registry.types),
        registry |-> [types |-> Append(registry.types, info),
                      capacity |-> IF Len(registry.types) >= registry.capacity
                                   THEN registry.capacity * 2 ELSE registry.capacity],
        heap |-> IF Len(registry.types) >= registry.capacity THEN heap - 1 ELSE heap]

\* elements_null: malloc of the element array returned NULL
coil_create_struct_type(registry, heap, name, elements, elements_null) ==
  IF elements_null THEN [type |-> COIL_TYPE_VOID, registry |-> registry, heap |-> heap]
  ELSE
  Bind(coil_create_type(TYPE_CATEGORY_STRUCT, 0, 0, Len(registry.types) % 4096),
       LAMBDA type :
  Bind(layout_elements(registry, elements, 1,
                       [elements |-> <<>>, offset |-> 0, max_alignment |-> 1]),
       LAMBDA layout :
  Bind(type_registry_add(
         registry, heap,
         [type_code |-> type,
          struct_info |-> [name |-> name, elements |-> layout.elements,
                           size |-> aligned(layout.offset, layout.max_alignment),
                           alignment |-> layout.max_alignment]]),
       LAMBDA added :
    IF added.index < 0
    THEN [type |-> COIL_TYPE_VOID, registry |-> registry, heap |-> heap]
    ELSE [type |-> type, registry |-> added.registry, heap |-> added.heap])))

(***************************************************************************)
(* Specification of the type system: coil_create_struct_type on a new      *)
(* registry, and coil_types_compatible asked in both directions.           *)
(***************************************************************************)
MaxFields == 3

MaxStructs == 2

integer_type(width) == coil_create_type(TYPE_CATEGORY_INTEGER, width, 0, 0)

struct_code(id) == coil_create_type(TYPE_CATEGORY_STRUCT, 0, 0, id)

\* field types of the first struct: integers of 8, 24, 32 and 4 bits, a
\* pointer, a boolean and a vector
TyFieldTypes ==
  { integer_type(8), integer_type(24), integer_type(32), integer_type(4),
    coil_create_pointer_type(COIL_TYPE_VOID, 0, 0),
    coil_create_type(TYPE_CATEGORY_BOOLEAN, 1, 0, 0),
    coil_create_vector_type(COIL_TYPE_BOOL, 4) }

\* field types of later structs: the first struct among them
TyNestedFieldTypes == { integer_type(8), integer_type(64), struct_code(0) }

field(type) == [name |-> "f", type |-> type]

TyElements(first) ==
  IF first THEN SeqOf({field(t) : t \in TyFieldTypes}, MaxFields)
  ELSE SeqOf({field(t) : t \in TyNestedFieldTypes}, 2)

TyTypes ==
  { COIL_TYPE_VOID, COIL_TYPE_INT32, COIL_TYPE_BOOL,
    integer_type(8), integer_type(32), coil_create_type(TYPE_CATEGORY_INTEGER, 32, 1, 0),
    coil_create_type(TYPE_CATEGORY_FLOAT, 32, 0, 0),
    coil_create_type(TYPE_CATEGORY_FLOAT, 64, 0, 0),
    coil_create_type(TYPE_CATEGORY_BOOLEAN, 1, 0, 0),
    coil_create_pointer_type(COIL_TYPE_VOID, 0, 0),
    coil_create_pointer_type(COIL_TYPE_BOOL, 0, 0),
    coil_create_pointer_type(COIL_TYPE_BOOL, 1, 0),
    coil_create_pointer_type(struct_code(2), 0, 0),
    coil_create_vector_type(COIL_TYPE_BOOL, 4),
    coil_create_vector_type(struct_code(2), 4),
    coil_create_vector_type(COIL_TYPE_BOOL, 8),
    coil_create_array_type(COIL_TYPE_BOOL, 4),
    coil_create_array_type(COIL_TYPE_BOOL, 8),
    struct_code(0), struct_code(1),
    coil_create_type(TYPE_CATEGORY_FUNCTION, 0, 0, 0) }

TyInit ==
  /\ ty_registry = NewRegistry
  /\ ty_heap \in {0, 3}
  /\ ty_created = <<>> /\ ty_compat = <<>> /\ ty_composite = <<>>
  /\ CodecIdle /\ SemIdle /\ HcIdle /\ IcIdle /\ TrIdle /\ OptIdle /\ SkIdle /\ AsIdle /\ LxIdle

\* malloc(element_count * sizeof(struct_element_t)) gives NULL when memory
\* is exhausted, and may give NULL for a size of zero
CreateStructType ==
  /\ Len(ty_created) < MaxStructs /\ ty_compat = <<>> /\ ty_composite = <<>>
  /\ \E elements \in TyElements(ty_registry.types = <<>>) :
       \E elements_null \in IF ty_heap = 0 THEN {TRUE}
                            ELSE IF elements = <<>> THEN BOOLEAN ELSE {FALSE} :
         LET r == coil_create_struct_type(
                    ty_registry, IF elements_null THEN ty_heap ELSE ty_heap - 1,
                    "S", elements, elements_null)
         IN /\ ty_registry' = r.registry
            /\ ty_heap' = r.heap
            /\ ty_created' = Append(ty_created, r.type)
  /\ UNCHANGED <<ty_compat, ty_composite, codecVars, semVars, hcVars, icVars, trVars, optVars, skVars, asVars, lxVars>>

\* the answer does not depend on the registry: asked once, of a new one
TypesCompatible ==
  /\ ty_compat = <<>> /\ ty_created = <<>> /\ ty_composite = <<>>
  /\ \E type1 \in TyTypes, type2 \in TyTypes :
       ty_compat' = <<[type1 |-> type1, type2 |-> type2,
                       forward |-> coil_types_compatible(type1, type2),
                       backward |-> coil_types_compatible(type2, type1)]>>
  /\ UNCHANGED <<ty_registry, ty_heap, ty_created, ty_composite,
                 codecVars, semVars, hcVars, icVars, trVars, optVars, skVars, asVars, lxVars>>

\* the predefined primitive types of type_system.h
Primitives ==
  {COIL_TYPE_VOID, COIL_TYPE_BOOL, COIL_TYPE_INT8, COIL_TYPE_UINT8, COIL_TYPE_INT16,
   COIL_TYPE_UINT16, COIL_TYPE_INT32, COIL_TYPE_UINT32, COIL_TYPE_INT64, COIL_TYPE_UINT64,
   COIL_TYPE_FLOAT16, COIL_TYPE_FLOAT32, COIL_TYPE_FLOAT64}

MaxCount == 2

composite(kind, base, type, read) ==
  [kind |-> kind, base |-> base, type |-> type, read |-> read,
   size |-> coil_get_type_size(ty_registry, type)]

\* a pointer, vector or array type is made and its base or element type read back
CreateComposite ==
  /\ ty_compat = <<>> /\ ty_created = <<>> /\ ty_composite = <<>>
  /\ \E base \in Primitives :
       \/ \E memory_space \in 0..4, qualifiers \in {0, 1} :
            LET type == coil_create_pointer_type(base, memory_space, qualifiers)
            IN ty_composite' = <<composite("pointer", base, type,
                                           coil_get_pointer_base_type(type))>>
       \/ \E element_count \in 1..MaxCount :
            LET type == coil_create_vector_type(base, element_count)
            IN ty_composite' = <<composite("vector", base, type,
                                           coil_get_element_type(type))>>
       \/ \E element_count \in 0..MaxCount :
            LET type == coil_create_array_type(base, element_count)
            IN ty_composite' = <<composite("array", base, type,
                                           coil_get_element_type(type))>>
  /\ UNCHANGED <<ty_registry, ty_heap, ty_created, ty_compat,
                 codecVars, semVars, hcVars, icVars, trVars, optVars, skVars, asVars, lxVars>>

TyNext == CreateStructType \/ TypesCompatible \/ CreateComposite

SpecTypes == TyInit /\ [][TyNext]_vars

same_category_rule(type1, type2) ==
  /\ coil_get_type_category(type1) = coil_get_type_category(type2)
  /\ coil_get_type_category(type1) \in {TYPE_CATEGORY_INTEGER, TYPE_CATEGORY_FLOAT,
                                        TYPE_CATEGORY_POINTER, TYPE_CATEGORY_VECTOR}

integer_and_pointer(type1, type2) ==
  {coil_get_type_category(type1), coil_get_type_category(type2)}
    = {TYPE_CATEGORY_INTEGER, TYPE_CATEGORY_POINTER}

round_up(offset, alignment) ==
  IF alignment = 0 THEN offset ELSE ((offset + alignment - 1) \div alignment) * alignment

\* the registry as it was when entry k was created
registry_before(k) == [types |-> SubSeq(ty_registry.types, 1, k - 1), capacity |-> 16]

field_size(k, elements, i) == coil_get_type_size(registry_before(k), elements[i].type)

field_alignment(k, elements, i) ==
  coil_get_type_alignment(registry_before(k), elements[i].type)

field_end(k, elements, i) ==
  IF i = 0 THEN 0 ELSE elements[i].offset + field_size(k, elements, i)

laid_out(k, info) ==
  /\ \A i \in 1..Len(info.elements) :
       info.elements[i].offset
         = IF i = 1 THEN 0
           ELSE round_up(field_end(k, info.elements, i - 1),
                         field_alignment(k, info.elements, i))
  /\ \A i \in 1..Len(info.elements) :
       info.alignment >= field_alignment(k, info.elements, i)
  /\ \/ info.alignment = 1
     \/ \E i \in 1..Len(info.elements) :
          info.alignment = field_alignment(k, info.elements, i)
  /\ info.size = round_up(field_end(k, info.elements, Len(info.elements)), info.alignment)
  /\ info.size % info.alignment = 0

\* C19: in every struct that coil_create_struct_type has entered in the
\* registry the first field is at offset 0, every later field is at the end
\* of the field before it rounded up to its own alignment, the struct's
\* alignment is the greatest alignment of its fields (1 when none exceeds
\* it), and its size is the end of the last field rounded up to that
\* alignment, hence a multiple of it.
C19_StructLayout ==
  \A k \in 1..Len(ty_registry.types) : laid_out(k, ty_registry.types[k].struct_info)

\* the codes of a category: 0-99 general, 100-199 parser, 200-299 type,
\* 300-399 semantic, 400-499 codegen, 500-599 binary, 600-699 assembler,
\* 700-799 system
category_range(category) == (100 * category)..(100 * category + 99)

in_range(errors) ==
  \A i \in 1..Len(errors) : errors[i].code \in category_range(errors[i].category)

\* C20: every diagnostic reported by the binary parser, the analyzer, the
\* HOIL parser, the translator and the optimizer carries a code inside the
\* range of the category it is reported under.
C20_CodeInsideCategoryRange ==
  /\ in_range(bin_errors) /\ in_range(sem_errors) /\ in_range(hc_errors)
  /\ in_range(tr_errors) /\ in_range(opt_errors)

(***************************************************************************)
(* Diagnostic sink (error.c).  A context holds the registered callbacks,   *)
(* the history and the three counters; a message is modelled by its        *)
(* severity, category and code (its text and location are copied along     *)
(* and decide nothing).                                                    *)
(***************************************************************************)
MAX_ERROR_CALLBACKS == 8
MAX_ERROR_HISTORY == 16

ERROR_INFO == 0
ERROR_WARNING == 1
ERROR_ERROR == 2
ERROR_INTERNAL == 3

Severities == {ERROR_INFO, ERROR_WARNING, ERROR_ERROR, ERROR_INTERNAL}

error_message(severity, category, code) ==
  [severity |-> severity, category |-> category, code |-> code]

NoError == error_message(0 - 1, 0 - 1, 0 - 1)

coil_register_error_callback(context, callback) ==
  IF callback = NULL THEN [ret |-> 0 - 1, context |-> context]
  ELSE IF Len(context.callbacks) >= MAX_ERROR_CALLBACKS
  THEN [ret |-> 0 - 1, context |-> context]
  ELSE [ret |-> 0,
        context |-> [context EXCEPT !.callbacks = Append(context.callbacks, callback)]]

\* a full history that refuses the new message instead of giving up its oldest
add_error_newest_dropped(context, error) ==
  IF Len(context.history) >= MAX_ERROR_HISTORY THEN context
  ELSE [context EXCEPT !.history = Append(context.history, error)]

\* when the history is full, history[1 .. MAX_ERROR_HISTORY - 1] is moved
\* one place down and the count set to MAX_ERROR_HISTORY - 1; the new
\* message goes to history[history_count++]
add_error_to_history(context, error) ==
  LET kept == IF Len(context.history) >= MAX_ERROR_HISTORY
              THEN SubSeq(context.history, 2, MAX_ERROR_HISTORY)
              ELSE context.history
  IN [context EXCEPT !.history = Append(kept, error)]

\* the switch of coil_report_error: error and internal share error_count
counted(context, severity) ==
  CASE severity = ERROR_INFO -> [context EXCEPT !.info_count = @ + 1]
    [] severity = ERROR_WARNING -> [context EXCEPT !.warning_count = @ + 1]
    [] severity \in {ERROR_ERROR, ERROR_INTERNAL} -> [context EXCEPT !.error_count = @ + 1]
    [] OTHER -> context

\* callbacks called last registered first
call_registered_backwards(callbacks) ==
  [i \in 1..Len(callbacks) |-> callbacks[Len(callbacks) + 1 - i]]

\* the loop for (i = 0; i < callback_count; i++) callbacks[i].callback(...):
\* the callbacks called, in call order
call_registered(callbacks) ==
  [i \in 1..Len(callbacks) |-> callbacks[i]]

coil_report_error(context, severity, category, code) ==
  [context |-> add_error_to_history(counted(context, severity),
                                    error_message(severity, category, code)),
   invoked |-> call_registered(context.callbacks)]

\* a counter of its own for every severity, internal having none
count_without_internal(context, severity) ==
  CASE severity = ERROR_INFO -> context.info_count
    [] severity = ERROR_WARNING -> context.warning_count
    [] severity = ERROR_ERROR -> context.error_count
    [] OTHER -> 0

coil_get_error_count(context, severity) ==
  CASE severity = ERROR_INFO -> context.info_count
    [] severity = ERROR_WARNING -> context.warning_count
    [] severity \in {ERROR_ERROR, ERROR_INTERNAL} -> context.error_count
    [] OTHER -> 0

\* the callbacks are left alone
coil_clear_errors(context) ==
  [context EXCEPT !.history = <<>>, !.error_count = 0,
                  !.warning_count = 0, !.info_count = 0]

coil_get_last_error(context) ==
  IF Len(context.history) = 0 THEN NoError
  ELSE context.history[Len(context.history)]

(***************************************************************************)
(* SpecSink: clients register callbacks, report the messages of a stream   *)
(* and clear the context, in any order.                                    *)
(***************************************************************************)
MaxReports == 18

\* the k-th report carries code k; severities alternate between two
SinkStreams ==
  { [k \in 1..MaxReports |->
       error_message(IF k % 2 = 1 THEN odd ELSE even, ERROR_CATEGORY_ASSEMBLER, k)] :
    odd \in Severities, even \in Severities }

SinkInit ==
  /\ sink_context = coil_create_error_context
  /\ sink_stream \in SinkStreams
  /\ sink_made = 0 /\ sink_reports = <<>> /\ sink_invoked = <<>> /\ sink_ret = Pending
  /\ CodecIdle /\ SemIdle /\ HcIdle /\ IcIdle /\ TrIdle /\ OptIdle /\ TyIdle /\ AsIdle /\ LxIdle

\* the callback given is NULL or a function not registered before
RegisterCallback ==
  /\ \E callback \in {NULL, Len(sink_context.callbacks) + 1} :
       LET r == coil_register_error_callback(sink_context, callback)
       IN /\ sink_context' = r.context
          /\ sink_ret' = r.ret
  /\ UNCHANGED <<sink_stream, sink_made, sink_reports, sink_invoked,
                 codecVars, semVars, hcVars, icVars, trVars, optVars, tyVars, asVars, lxVars>>

ReportError ==
  /\ sink_made < MaxReports
  /\ LET error == sink_stream[sink_made + 1]
         r == coil_report_error(sink_context, error.severity, error.category, error.code)
     IN /\ sink_context' = r.context
        /\ sink_invoked' = r.invoked
        /\ sink_reports' = Append(sink_reports, error)
  /\ sink_made' = sink_made + 1
  /\ UNCHANGED <<sink_stream, sink_ret,
                 codecVars, semVars, hcVars, icVars, trVars, optVars, tyVars, asVars, lxVars>>

ClearErrors ==
  /\ sink_context' = coil_clear_errors(sink_context)
  /\ sink_reports' = <<>>
  /\ UNCHANGED <<sink_stream, sink_made, sink_invoked, sink_ret,
                 codecVars, semVars, hcVars, icVars, trVars, optVars, tyVars, asVars, lxVars>>

SinkNext == RegisterCallback \/ ReportError \/ ClearErrors

SpecSink == SinkInit /\ [][SinkNext]_vars

\* the last min(n, MAX_ERROR_HISTORY) of the reports made since the last clear
most_recent(reports) ==
  SubSeq(reports, Max(1, Len(reports) - MAX_ERROR_HISTORY + 1), Len(reports))

\* C21: after any sequence of reports and clears the history holds at most
\* 16 entries, which are exactly the most recent min(n, 16) reports made
\* since the last clear in report order, and coil_get_last_error gives the
\* most recent of them, or nothing when there is none.
C21_HistoryIsMostRecentSixteen ==
  /\ Len(sink_context.history) <= 16
  /\ sink_context.history = most_recent(sink_reports)
  /\ coil_get_last_error(sink_context) =
       IF sink_reports = <<>> THEN NoError ELSE sink_reports[Len(sink_reports)]

\* more than sixteen reports since the last clear, so that older ones were
\* discarded, with a clear before them
C21_Witness ==
  /\ Len(sink_reports) > MAX_ERROR_HISTORY
  /\ sink_made > Len(sink_reports)
  /\ Len(sink_context.history) = MAX_ERROR_HISTORY
  /\ sink_context.history[1].code = sink_made - MAX_ERROR_HISTORY + 1

is_prefix(short, long) ==
  /\ Len(short) <= Len(long)
  /\ \A i \in 1..Len(short) : short[i] = long[i]

\* C22: every report calls each registered callback exactly once, in
\* registration order, before it returns (the calls are part of the
\* report step), and no step, clear included, removes a registered callback.
C22_CallbacksInRegistrationOrder ==
  [][ /\ sink_made' > sink_made => sink_invoked' = sink_context.callbacks
      /\ is_prefix(sink_context.callbacks, sink_context'.callbacks) ]_vars

\* a report has called at least two callbacks that were registered before a
\* clear, while a further registration was refused because the table is full
C22_Witness ==
  /\ Len(sink_invoked) = MAX_ERROR_CALLBACKS
  /\ sink_ret = 0 - 1
  /\ sink_invoked = sink_context.callbacks
  /\ sink_made > Len(sink_reports)
  /\ sink_reports # <<>>

reports_of(severities) ==
  Cardinality({i \in 1..Len(sink_reports) : sink_reports[i].severity \in severities})

C29_BaseTypeReadBack ==
  \A i \in 1..Len(ty_composite) :
    /\ ty_composite[i].read = ty_composite[i].base
    /\ ty_composite[i].kind \in {"vector", "array"}
         => ty_composite[i].size = coil_get_type_width(ty_composite[i].type)
                                     * coil_get_type_size(ty_registry, ty_composite[i].base)

(***************************************************************************)
(* Lexer, character by character (lexer.c).  A lexer l holds the source    *)
(* as a sequence of characters, the number of characters consumed and the  *)
(* diagnostics it reported; lines and columns are left out.                *)
(***************************************************************************)
ERROR_PARSER_UNTERMINATED == 103
TOKEN_STAR == 37
TOKEN_SLASH == 38

\* what peek and advance give at the end of the source: the character '\0'
NUL == "NUL"

LxDiag(code) == Diag(code, ERROR_CATEGORY_PARSER)

lx_reported(l, code) == [l EXCEPT !.errors = Append(l.errors, LxDiag(code))]

is_at_end(l) == l.current >= Len(l.source)

peek(l) == IF is_at_end(l) THEN NUL ELSE l.source[l.current + 1]

peek_next(l) ==
  IF is_at_end(l) \/ l.current + 1 >= Len(l.source) THEN NUL
  ELSE l.source[l.current + 2]

lx_advance(l) == IF is_at_end(l) THEN l ELSE [l EXCEPT !.current = l.current + 1]

\* while (peek(lexer) != '\n' && !is_at_end(lexer)) advance(lexer);
RECURSIVE skip_line_comment(_)
skip_line_comment(l) ==
  IF peek(l) # "\n" /\ ~is_at_end(l) THEN skip_line_comment(lx_advance(l)) ELSE l

\* the body of a block comment, after its opening characters: the loop ends
\* either in front of the closing characters, or at the end of the source
\* with a diagnostic when the end is met after an advance, or at the end of
\* the source without one when the loop is not entered
RECURSIVE skip_block_comment(_)
skip_block_comment(l) ==
  IF ~is_at_end(l) /\ ~(peek(l) = "*" /\ peek_next(l) = "/")
  THEN IF is_at_end(lx_advance(l))
       THEN [l |-> lx_reported(lx_advance(l), ERROR_PARSER_UNTERMINATED),
             returned |-> TRUE, closed |-> FALSE]
       ELSE skip_block_comment(lx_advance(l))
  ELSE [l |-> lx_advance(lx_advance(l)), returned |-> FALSE, closed |-> ~is_at_end(l)]

\* gives the lexer and whether the source ended inside a block comment
RECURSIVE skip_whitespace_and_comments(_)
skip_whitespace_and_comments(l) ==
  IF peek(l) \in {" ", "\t", "\r", "\n"} THEN skip_whitespace_and_comments(lx_advance(l))
  ELSE IF peek(l) = "/" /\ peek_next(l) = "/"
  THEN skip_whitespace_and_comments(skip_line_comment(l))
  ELSE IF peek(l) = "/" /\ peek_next(l) = "*"
  THEN LET r == skip_block_comment(lx_advance(lx_advance(l)))
       IN IF r.returned THEN [l |-> r.l, open_comment |-> TRUE]
          ELSE IF r.closed THEN skip_whitespace_and_comments(r.l)
          ELSE [l |-> r.l, open_comment |-> TRUE]
  ELSE [l |-> l, open_comment |-> FALSE]

token(type, l, ended_in) == [type |-> type, l |-> l, ended_in |-> ended_in]

\* the characters of a string after its opening quote; an escape that is
\* none of n r t \ " 0 is reported and kept
RECURSIVE scan_string(_)
scan_string(l) ==
  IF peek(l) # "\"" /\ ~is_at_end(l)
  THEN IF peek(l) = "\\"
       THEN IF peek_next(l) \in {"n", "r", "t", "\\", "\"", "0"}
            THEN scan_string(lx_advance(lx_advance(l)))
            ELSE scan_string(lx_reported(lx_advance(lx_advance(l)),
                                         ERROR_PARSER_INVALID_SYNTAX))
       ELSE scan_string(lx_advance(l))
  ELSE IF is_at_end(l)
  THEN token(TOKEN_ERROR, lx_reported(l, ERROR_PARSER_UNTERMINATED), "string")
  ELSE token(TOKEN_STRING, lx_advance(l), "none")

is_identifier_part(c) == c \in {"a", "b", "_", "0", "1"}

RECURSIVE scan_identifier_part(_)
scan_identifier_part(l) ==
  IF is_identifier_part(peek(l)) THEN scan_identifier_part(lx_advance(l)) ELSE l

\* hoil_lexer_next_token on the characters of LxAlphabet: after the
\* whitespace and comments, the end of the source, an identifier, a string
\* or one character
next_token_after(skipped) ==
  IF is_at_end(skipped.l)
  THEN token(TOKEN_EOF, skipped.l, IF skipped.open_comment THEN "comment" ELSE "none")
  ELSE CASE peek(skipped.l) \in {"a", "b", "_"} ->
              token(TOKEN_IDENTIFIER, scan_identifier_part(lx_advance(skipped.l)), "none")
         [] peek(skipped.l) = "\"" -> scan_string(lx_advance(skipped.l))
         [] peek(skipped.l) = "*" -> token(TOKEN_STAR, lx_advance(skipped.l), "none")
         [] peek(skipped.l) = "/" -> token(TOKEN_SLASH, lx_advance(skipped.l), "none")
         [] peek(skipped.l) = ";" -> token(TOKEN_SEMICOLON, lx_advance(skipped.l), "none")
         [] OTHER -> token(TOKEN_ERROR,
                           lx_reported(lx_advance(skipped.l), ERROR_PARSER_UNEXPECTED_TOKEN),
                           "none")

lexer_next_token(l) == next_token_after(skip_whitespace_and_comments(l))

(***************************************************************************)
(* SpecLexer: hoil_lexer_next_token is called on a source until it gives   *)
(* the end of the source.                                                  *)
(***************************************************************************)
MaxSource == 4

LxAlphabet == {"/", "*", "\"", "\\", "a", " "}

LxSources == SeqOf(LxAlphabet, MaxSource)

LxInit ==
  /\ lx_source \in LxSources
  /\ lx_current = 0 /\ lx_token = <<>> /\ lx_errors = <<>>
  /\ CodecIdle /\ SemIdle /\ HcIdle /\ IcIdle /\ TrIdle /\ OptIdle /\ TyIdle /\ SkIdle
  /\ AsIdle

\* one call; of the token the type, the characters consumed, the diagnostics
\* of this call and what the source ended in are kept
LexNextToken ==
  /\ IF lx_token = <<>> THEN TRUE ELSE Last(lx_token).type # TOKEN_EOF
  /\ LET r == lexer_next_token([source |-> lx_source, current |-> lx_current,
                                errors |-> <<>>])
     IN /\ lx_current' = r.l.current
        /\ lx_errors' = lx_errors \o r.l.errors
        /\ lx_token' = Append(lx_token, [type |-> r.type, from |-> lx_current,
                                         to |-> r.l.current, ended_in |-> r.ended_in,
                                         reported |-> r.l.errors])
  /\ UNCHANGED <<lx_source, codecVars, semVars, hcVars, icVars, trVars, optVars, tyVars,
                 skVars, asVars>>

LxNext == LexNextToken

SpecLexer == LxInit /\ [][LxNext]_vars

\* C23: whenever the source ends inside a block comment or a string, the
\* call of hoil_lexer_next_token that met the end reported an error and
\* returned the error token.
C23_UnterminatedGivesErrorToken ==
  \A i \in 1..Len(lx_token) :
    lx_token[i].ended_in # "none"
      => /\ lx_token[i].type = TOKEN_ERROR
         /\ lx_token[i].reported # <<>>

\* C24: if a diagnostic was reported while hoil_compile_string ran (the
\* parser and the analyzer report every diagnostic with severity error),
\* the call returned no module and hoil_had_error is true afterwards.
C24_ErrorMeansNoModule ==
  (hc_phase = "done" /\ hc_errors # <<>>)
    => (hc_ret = "null" /\ hc_had_error)

X86_REG_RSP == 4
X86_REG_RBP == 5

\* what a translation into an empty buffer that never runs out of memory
\* has emitted when the first j instructions of the function are done
emitted_through(function, j, e) ==
  translate_instructions(
    emit(translator_state([data |-> <<>>, capacity |-> 1], <<>>, 64, FALSE), PROLOGUE).t,
    SubSeq(instructions_of(function.blocks), 1, j), e).t.data

\* where the return instructions end in the emitted code: one for every RET
\* of the function, and that of the epilogue when there is one
return_ends(function, emitted, e) ==
  { Len(emitted_through(function, j, e)) :
      j \in { i \in 1..Len(instructions_of(function.blocks)) :
                instructions_of(function.blocks)[i].opcode = OPCODE_RET } }
  \cup (IF Len(emitted)
            > Len(emitted_through(function, Len(instructions_of(function.blocks)), e))
        THEN {Len(emitted)} ELSE {})

\* C25: in the code emitted for a function, every return instruction (C3,
\* for a RET of the function or from the epilogue) comes immediately after
\* POP RBP (5D).
C25_ReturnAfterPopRbp ==
  (tr_ret = 0 /\ tr_module.isnull /\ ~tr_function.is_external)
  => \A p \in return_ends(tr_function, tr_emitted, endian) :
       /\ tr_emitted[p] = 195
       /\ p > 1 /\ tr_emitted[p - 1] = 93

\* C26: no virtual register is mapped to RSP or RBP.
C26_StackRegistersNeverMapped ==
  \A i \in 1..Len(tr_mappings) :
    tr_mappings[i].preg \notin {X86_REG_RSP, X86_REG_RBP}

\* C27: coil_module_to_binary writes nothing at or past buffer + buffer_size:
\* it returns -1 or a length of at most buffer_size, and the memory it has
\* written ends where the buffer ends.
C27_WritesStayInsideBuffer ==
  bin_origin = "encoded"
  => /\ to_binary_ret = 0 - 1 \/ to_binary_ret <= buffer_size
     /\ Len(bin_memory) <= buffer_size

(***************************************************************************)
(* The assembler (coil_assembler.c).  Target configurations live in        *)
(* as_targets, one entry per coil_create_default_target that succeeded,    *)
(* "alive" until coil_free_target_config and "freed" after; a pointer to a *)
(* target is its index.  The translator and the optimizer each keep the    *)
(* pointer they were created with (translator.c:96, optimizer.c:55).       *)
(***************************************************************************)
ERROR_CATEGORY_GENERAL == 0
ERROR_CATEGORY_SYSTEM == 7
ERROR_ASSEMBLER_UNSUPPORTED == 600
ERROR_SYSTEM_IO == 700

SupportedTargets == {"x86_64", "x86_64_generic"}
TargetNames == SupportedTargets \cup {"arm"}

coil_free_target_config(targets, config) ==
  IF config = NULL THEN targets ELSE [targets EXCEPT ![config] = "freed"]

as_result(targets, a, ret, errors) ==
  [targets |-> targets, assembler |-> a, ret |-> ret, errors |-> errors]

\* coil_create_translator on the assembler's target; the old translator has
\* been freed, and a failed allocation leaves NULL
coil_create_translator(a, allocated) ==
  IF a.target = NULL \/ ~allocated
  THEN [a EXCEPT !.translator = NULL, !.translator_target = NULL]
  ELSE [a EXCEPT !.translator = 1, !.translator_target = a.target]

\* coil_create_optimizer on the assembler's target: the new optimizer starts
\* at OPT_LEVEL_NONE whatever the assembler's opt_level is
coil_create_optimizer(a, allocated) ==
  IF a.target = NULL \/ ~allocated
  THEN [a EXCEPT !.optimizer = NULL, !.optimizer_target = NULL,
                 !.optimizer_level = OPT_LEVEL_NONE]
  ELSE [a EXCEPT !.optimizer = 1, !.optimizer_target = a.target,
                 !.optimizer_level = OPT_LEVEL_NONE]

\* coil_create_assembler: a default target, a translator and an optimizer on it
coil_create_assembler ==
  coil_create_optimizer(
    coil_create_translator([NoAssembler EXCEPT !.target = 1], TRUE), TRUE)

\* the supported branch of coil_set_target, the previous target already freed
set_supported_target(targets, a, target_ok, translator_ok, optimizer_ok) ==
  IF ~target_ok
  THEN as_result(targets, a, 0 - 1,
                 <<Diag(ERROR_ASSEMBLER_NO_TARGET, ERROR_CATEGORY_ASSEMBLER)>>)
  ELSE
  Bind(coil_create_translator([a EXCEPT !.target = Len(targets) + 1], translator_ok),
       LAMBDA b :
    IF b.translator = NULL
    THEN as_result(Append(targets, "alive"), b, 0 - 1,
                   <<Diag(ERROR_GENERAL_OUT_OF_MEMORY, ERROR_CATEGORY_ASSEMBLER)>>)
    ELSE
    Bind(coil_create_optimizer(b, optimizer_ok), LAMBDA c :
      IF c.optimizer = NULL
      THEN as_result(Append(targets, "alive"), c, 0 - 1,
                     <<Diag(ERROR_GENERAL_OUT_OF_MEMORY, ERROR_CATEGORY_ASSEMBLER)>>)
      ELSE as_result(Append(targets, "alive"), c, 0, <<>>)))

\* coil_set_target: the previous target is freed before the name is looked at
coil_set_target(targets, a, target_name, target_ok, translator_ok, optimizer_ok) ==
  IF target_name \in SupportedTargets
  THEN set_supported_target(coil_free_target_config(targets, a.target),
                            [a EXCEPT !.target = NULL],
                            target_ok, translator_ok, optimizer_ok)
  ELSE as_result(coil_free_target_config(targets, a.target),
                 [a EXCEPT !.target = NULL], 0 - 1,
                 <<Diag(ERROR_ASSEMBLER_UNSUPPORTED, ERROR_CATEGORY_ASSEMBLER)>>)

\* coil_set_opt_level of the assembler
set_assembler_opt_level(a, level) ==
  [a EXCEPT !.opt_level = level,
            !.optimizer_level = IF a.optimizer = NULL THEN @ ELSE level]

\* a target pointer a component went through: which target, whether it was
\* alive at that moment, and whether the memory behind it was read
reached(by, targets, config, read) ==
  [by |-> by, target |-> config, state |-> targets[config], read |-> read]

Dangling(run) == \E i \in 1..Len(run) : run[i].state = "freed" /\ run[i].read

as_outcome(ret, errors, run) == [ret |-> ret, errors |-> errors, run |-> run]

\* coil_optimize_module as coil_assemble_file calls it: register allocation
\* (level >= NORMAL, a function with a body) reads optimizer->target
optimize_loaded_module(targets, a) ==
  IF a.optimizer = NULL THEN as_outcome(0 - 1, <<>>, <<>>)
  ELSE IF a.optimizer_level < OPT_LEVEL_NORMAL \/ a.module.function_count = 0
  THEN as_outcome(0, <<>>, <<reached("optimizer", targets, a.optimizer_target, FALSE)>>)
  ELSE IF a.module.spills
  THEN as_outcome(0 - 1, <<Diag(ERROR_ASSEMBLER_BAD_MAPPING, ERROR_CATEGORY_ASSEMBLER)>>,
                  <<reached("optimizer", targets, a.optimizer_target, TRUE)>>)
  ELSE as_outcome(0, <<>>, <<reached("optimizer", targets, a.optimizer_target, TRUE)>>)

\* the rest of coil_assemble_file once the module is parsed
assemble_parsed(targets, a) ==
  Bind(IF a.opt_level > OPT_LEVEL_NONE THEN optimize_loaded_module(targets, a)
       ELSE as_outcome(0, <<>>, <<>>), LAMBDA optimized :
    IF optimized.ret # 0
    THEN [assembler |-> [a EXCEPT !.had_error = TRUE], ret |-> 0 - 1,
          errors |-> optimized.errors, run |-> optimized.run]
    ELSE IF a.module.required = "unmet"
    THEN [assembler |-> [a EXCEPT !.had_error = TRUE], ret |-> 0 - 1,
          errors |-> <<Diag(ERROR_ASSEMBLER_NO_TARGET, ERROR_CATEGORY_ASSEMBLER)>>,
          run |-> optimized.run]
    ELSE [assembler |-> a, ret |-> 0, errors |-> <<>>, run |-> optimized.run])

\* coil_assemble_file; parsed is what coil_parse_binary_file gives
\* (NoLoadedModule when it fails); ret 0 stands for the module, -1 for NULL
coil_assemble_file(targets, a, parsed) ==
  IF a.target = NULL
  THEN [assembler |-> [a EXCEPT !.had_error = TRUE], ret |-> 0 - 1,
        errors |-> <<Diag(ERROR_ASSEMBLER_NO_TARGET, ERROR_CATEGORY_ASSEMBLER)>>,
        run |-> <<>>]
  ELSE IF ~parsed.loaded
  THEN [assembler |-> [a EXCEPT !.module = NoLoadedModule, !.had_error = TRUE],
        ret |-> 0 - 1, errors |-> <<>>, run |-> <<>>]
  ELSE assemble_parsed(targets, [a EXCEPT !.module = parsed])

\* coil_translate_module as coil_generate_native_code calls it: the
\* requirement check reads translator->target when the module names features
translate_loaded_module(targets, a, translated) ==
  IF a.module.required = "unmet"
  THEN as_outcome(0 - 1, <<Diag(ERROR_ASSEMBLER_NO_TARGET, ERROR_CATEGORY_ASSEMBLER)>>,
                  <<reached("translator", targets, a.translator_target, TRUE)>>)
  ELSE as_outcome(IF translated THEN 0 ELSE 0 - 1, <<>>,
                  <<reached("translator", targets, a.translator_target,
                            a.module.required # "none")>>)

coil_generate_native_code(targets, a, fopen_ok, buffer_ok, translated, written) ==
  IF ~a.module.loaded
  THEN [assembler |-> a, ret |-> 0 - 1, errors |-> <<>>, run |-> <<>>]
  ELSE IF ~fopen_ok
  THEN [assembler |-> [a EXCEPT !.had_error = TRUE], ret |-> 0 - 1,
        errors |-> <<Diag(ERROR_SYSTEM_IO, ERROR_CATEGORY_SYSTEM)>>, run |-> <<>>]
  ELSE IF a.translator = NULL \/ ~buffer_ok
  THEN [assembler |-> [a EXCEPT !.had_error = TRUE], ret |-> 0 - 1,
        errors |-> <<Diag(ERROR_GENERAL_OUT_OF_MEMORY, ERROR_CATEGORY_GENERAL)>>,
        run |-> <<>>]
  ELSE
  Bind(translate_loaded_module(targets, a, translated), LAMBDA translation :
    IF translation.ret # 0 \/ ~written
    THEN [assembler |-> [a EXCEPT !.had_error = TRUE], ret |-> 0 - 1,
          errors |-> translation.errors, run |-> translation.run]
    ELSE [assembler |-> a, ret |-> 0, errors |-> <<>>, run |-> translation.run])

(***************************************************************************)
(* Specification of the assembler: any sequence of coil_set_target,        *)
(* coil_set_opt_level, coil_assemble_file and coil_generate_native_code on *)
(* one assembler.  A call that reads a freed target has any outcome.       *)
(***************************************************************************)
MaxTargets == 3

AsModules ==
  {m \in [loaded : {TRUE}, required : {"none", "met", "unmet"},
          function_count : 0..1, spills : BOOLEAN] :
     m.spills => m.function_count > 0}
  \cup {NoLoadedModule}

AsInit ==
  /\ as_targets = <<"alive">> /\ as_assembler = coil_create_assembler
  /\ as_run = <<>> /\ as_ret = Pending /\ as_errors = <<>>
  /\ CodecIdle /\ SemIdle /\ HcIdle /\ IcIdle /\ TrIdle /\ OptIdle /\ TyIdle
  /\ SkIdle /\ LxIdle

AsQuiet == UNCHANGED <<codecVars, semVars, hcVars, icVars, trVars, optVars, tyVars, skVars, lxVars>>

SetTarget ==
  /\ Len(as_targets) < MaxTargets
  /\ \E target_name \in TargetNames, target_ok \in BOOLEAN,
        translator_ok \in BOOLEAN, optimizer_ok \in BOOLEAN :
       Bind(coil_set_target(as_targets, as_assembler, target_name,
                            target_ok, translator_ok, optimizer_ok), LAMBDA r :
         /\ as_targets' = r.targets /\ as_assembler' = r.assembler
         /\ as_ret' = r.ret /\ as_errors' = r.errors /\ as_run' = <<>>)
  /\ AsQuiet

SetAssemblerOptLevel ==
  /\ \E level \in OPT_LEVEL_NONE..OPT_LEVEL_AGGRESSIVE :
       as_assembler' = set_assembler_opt_level(as_assembler, level)
  /\ as_ret' = Pending /\ as_errors' = <<>> /\ as_run' = <<>>
  /\ UNCHANGED as_targets
  /\ AsQuiet

\* what a call that went through run leaves: its own result, or anything
\* when it read a freed target
Undefined(r) ==
  IF Dangling(r.run)
  THEN /\ as_ret' \in {0, 0 - 1, Aborted}
       /\ as_assembler' \in {r.assembler, [r.assembler EXCEPT !.had_error = TRUE]}
       /\ as_errors' \in {<<>>, r.errors}
  ELSE as_ret' = r.ret /\ as_assembler' = r.assembler /\ as_errors' = r.errors

AssembleFile ==
  /\ as_ret # Aborted
  /\ \E parsed \in AsModules :
       Bind(coil_assemble_file(as_targets, as_assembler, parsed), LAMBDA r :
         Undefined(r) /\ as_run' = r.run)
  /\ UNCHANGED as_targets
  /\ AsQuiet

GenerateNativeCode ==
  /\ as_ret # Aborted
  /\ \E fopen_ok \in BOOLEAN, buffer_ok \in BOOLEAN,
        translated \in BOOLEAN, written \in BOOLEAN :
       Bind(coil_generate_native_code(as_targets, as_assembler, fopen_ok,
                                      buffer_ok, translated, written), LAMBDA r :
         Undefined(r) /\ as_run' = r.run)
  /\ UNCHANGED as_targets
  /\ AsQuiet

AsNext == SetTarget \/ SetAssemblerOptLevel \/ AssembleFile \/ GenerateNativeCode

SpecAssembler == AsInit /\ [][AsNext]_vars

\* C28: whenever coil_assemble_file or coil_generate_native_code runs the
\* optimizer or the translator, the target configuration that component
\* refers to is alive, whatever coil_set_target calls came before.
C28_ComponentsReferToLiveTarget ==
  \A i \in 1..Len(as_run) : as_run[i].state = "alive"
====
